---------------------------- MODULE Spec2Model ----------------------------
(***************************************************************************)
(* SQRIBBLE 3DS (source/main.c): the scratch-off canvas engine.            *)
(*                                                                         *)
(* The model covers the erase mask, the brush (scratchAt), the line        *)
(* rasteriser (drawLine), the undo/redo history (pushUndo / undo / redo),  *)
(* the two pattern layers and their generators, the compositor, the BMP    *)
(* export and import, and the input handling of the main loop, one action  *)
(* per frame.                                                              *)
(*                                                                         *)
(* The specifications share the variables:                                 *)
(*   Spec          the main loop, every control, one control per scan;     *)
(*   SpecStroke    the main loop, stylus with the stroke and history keys; *)
(*   SpecHist      pushUndo / undo / redo / brush edits in any order;      *)
(*   SpecEvict     pushUndo past MAX_HISTORY, then undo;                   *)
(*   SpecBrush     scratchAt applied to masks reachable from a clear mask; *)
(*   SpecLine      drawLine between any two points;                        *)
(*   SpecComposite compositeImage on sample layers and masks;              *)
(*   SpecMap       the screen-to-buffer index mapping, pixel by pixel;     *)
(*   SpecCodec     saveScreenshot and loadDrawing around a rendering;      *)
(*   SpecStereo    the two eyes of the top screen at sample depths;        *)
(*   SpecEdge      scratchAt centred on and beyond the canvas edges;       *)
(*   SpecClamp     the main loop started at the limits of size, depth and  *)
(*                 history.                                                *)
(*                                                                         *)
(* The 320x240 screen is scaled down to SCREEN_WIDTH x SCREEN_HEIGHT; all  *)
(* index arithmetic is the code's, with 240 read as SCREEN_HEIGHT and 320  *)
(* as SCREEN_WIDTH. As at full size, the width and the height are an even  *)
(* number of pattern cells and so is their difference.                     *)
(***************************************************************************)
EXTENDS Integers, Sequences, FiniteSets, TLC

\* ------------------------------------------------------------------ bounds
\* The logical screen, scaled down from 320 x 240.
SCREEN_WIDTH == 4
SCREEN_HEIGHT == 2
\* SpecBrush: largest brush radius applied and number of applications.
MaxRadius == 2
\* Spec, SpecStroke, SpecClamp: number of loop iterations explored.
MaxFrames == 3
MaxStrokeFrames == 5
MaxClampFrames == 2
\* Spec: number of files scanGalleryImages can find.
MaxGallery == 1
\* SpecHist: number of history operations explored.
MaxOps == 6
\* SpecHist: number of brush applications among the history calls.
MaxEdits == 2
\* SpecEvict: number of consecutive pushUndo calls (more than MAX_HISTORY).
MaxPushes == 22
\* SpecLine: drawLine's endpoints have coordinates in 0 .. MaxLineCoord.
MaxLineCoord == 4
\* The side of a pattern cell (the program always passes 20), scaled with
\* the screen.
CellSize == 1

\* ------------------------------------------------------- program constants
FB_WIDTH == SCREEN_HEIGHT
FB_HEIGHT == SCREEN_WIDTH
MAX_HISTORY == 20

MODE_CHECKERBOARD_BLACK == 0
MODE_CHECKERBOARD_WHITE == 1
MODE_COLOR_ON_WHITE == 2
MODE_COLOR_ON_BLACK == 3

BRUSH_CIRCLE == 0
BRUSH_SQUARE == 1
BRUSH_SOFT == 2
BrushShapes == {BRUSH_CIRCLE, BRUSH_SQUARE, BRUSH_SOFT}

numColors == 6

\* Initial values of main()'s locals and of the globals.
InitBrushSize == 5
MinBrushSize == 1
MaxBrushSize == 50
\* depthOffset is a float; the model keeps it in thousandths, the unit of the
\* stick adjustment -(float)pos.dy / 1000.0f.
InitDepth == 3000
MinDepth == -10000
MaxDepth == 15000
StickDeadzone == 20

Min(a, b) == IF a < b THEN a ELSE b
\* The element of a one-element set: Only({F(v) : v \in {e}}) is F(e) with e
\* evaluated once.
Only(S) == CHOOSE x \in S : TRUE
Abs(a) == IF a < 0 THEN -a ELSE a

\* ------------------------------------------------------------------- masks
MaskIdx == 0 .. (FB_WIDTH * FB_HEIGHT - 1)
ClearMask == [i \in MaskIdx |-> 255]
ZeroMask == [i \in MaskIdx |-> 0]

\* maskIdxOf with the screen width as the column stride.
maskIdxOf_widthStride(px, py) == px * SCREEN_WIDTH + (SCREEN_HEIGHT - 1 - py)

\* Screen (x, y) to mask index: px * 240 + (239 - py).
maskIdxOf(px, py) == px * SCREEN_HEIGHT + (SCREEN_HEIGHT - 1 - py)

\* (u8)(falloff * 255) of the soft brush, falloff = (sqrtf(d2) / brushSize)^2
\* evaluated in IEEE-754 single precision and truncated: row brushSize, entry
\* d2 + 1, for d2 = dx*dx + dy*dy in 0 .. brushSize^2.
SoftAlphaTable ==
  <<
    << 0, 255 >>,
    << 0, 63, 127, 191, 255 >>,
    << 0, 28, 56, 84, 113, 141, 170, 198, 226, 255 >>,
    << 0, 15, 31, 47, 63, 79, 95, 111, 127, 143, 159, 175, 191, 207, 223, 239, 255 >>,
    << 0, 10, 20, 30, 40, 50, 61, 71, 81, 91, 102, 112, 122, 132, 142, 153, 163, 173, 183, 193,
       203, 214, 224, 234, 244, 255 >>,
    << 0, 7, 14, 21, 28, 35, 42, 49, 56, 63, 70, 77, 84, 92, 99, 106, 113, 120, 127, 134, 141,
       148, 155, 162, 170, 177, 184, 191, 198, 205, 212, 219, 226, 233, 240, 247, 255 >>,
    << 0, 5, 10, 15, 20, 26, 31, 36, 41, 46, 52, 57, 62, 67, 72, 78, 83, 88, 93, 98, 104, 109,
       114, 119, 124, 130, 135, 140, 145, 150, 156, 161, 166, 171, 176, 182, 187, 192, 197,
       202, 208, 213, 218, 223, 228, 234, 239, 244, 249, 255 >>,
    << 0, 3, 7, 11, 15, 19, 23, 27, 31, 35, 39, 43, 47, 51, 55, 59, 63, 67, 71, 75, 79, 83, 87,
       91, 95, 99, 103, 107, 111, 115, 119, 123, 127, 131, 135, 139, 143, 147, 151, 155, 159,
       163, 167, 171, 175, 179, 183, 187, 191, 195, 199, 203, 207, 211, 215, 219, 223, 227,
       231, 235, 239, 243, 247, 251, 255 >>,
    << 0, 3, 6, 9, 12, 15, 18, 22, 25, 28, 31, 34, 37, 40, 44, 47, 50, 53, 56, 59, 62, 66, 69,
       72, 75, 78, 81, 84, 88, 91, 94, 97, 100, 103, 107, 110, 113, 116, 119, 122, 125, 129,
       132, 135, 138, 141, 144, 147, 151, 154, 157, 160, 163, 166, 170, 173, 176, 179, 182,
       185, 188, 192, 195, 198, 201, 204, 207, 210, 214, 217, 220, 223, 226, 229, 232, 236,
       239, 242, 245, 248, 251, 255 >>,
    << 0, 2, 5, 7, 10, 12, 15, 17, 20, 22, 25, 28, 30, 33, 35, 38, 40, 43, 45, 48, 50, 53, 56,
       58, 61, 63, 66, 68, 71, 73, 76, 79, 81, 84, 86, 89, 91, 94, 96, 99, 102, 104, 107, 109,
       112, 114, 117, 119, 122, 124, 127, 130, 132, 135, 137, 140, 142, 145, 147, 150, 153,
       155, 158, 160, 163, 165, 168, 170, 173, 175, 178, 181, 183, 186, 188, 191, 193, 196,
       198, 201, 203, 206, 209, 211, 214, 216, 219, 221, 224, 226, 229, 232, 234, 237, 239,
       242, 244, 247, 249, 252, 255 >>,
    << 0, 2, 4, 6, 8, 10, 12, 14, 16, 18, 21, 23, 25, 27, 29, 31, 33, 35, 37, 40, 42, 44, 46,
       48, 50, 52, 54, 56, 59, 61, 63, 65, 67, 69, 71, 73, 75, 77, 80, 82, 84, 86, 88, 90, 92,
       94, 96, 99, 101, 103, 105, 107, 109, 111, 113, 115, 118, 120, 122, 124, 126, 128, 130,
       132, 134, 136, 139, 141, 143, 145, 147, 149, 151, 153, 155, 158, 160, 162, 164, 166,
       168, 170, 172, 174, 177, 179, 181, 183, 185, 187, 189, 191, 193, 195, 198, 200, 202,
       204, 206, 208, 210, 212, 214, 217, 219, 221, 223, 225, 227, 229, 231, 233, 236, 238,
       240, 242, 244, 246, 248, 250, 252, 255 >>,
    << 0, 1, 3, 5, 7, 8, 10, 12, 14, 15, 17, 19, 21, 23, 24, 26, 28, 30, 31, 33, 35, 37, 38,
       40, 42, 44, 46, 47, 49, 51, 53, 54, 56, 58, 60, 61, 63, 65, 67, 69, 70, 72, 74, 76, 77,
       79, 81, 83, 84, 86, 88, 90, 92, 93, 95, 97, 99, 100, 102, 104, 106, 108, 109, 111, 113,
       115, 116, 118, 120, 122, 123, 125, 127, 129, 131, 132, 134, 136, 138, 139, 141, 143,
       145, 146, 148, 150, 152, 154, 155, 157, 159, 161, 162, 164, 166, 168, 170, 171, 173,
       175, 177, 178, 180, 182, 184, 185, 187, 189, 191, 193, 194, 196, 198, 200, 201, 203,
       205, 207, 208, 210, 212, 214, 216, 217, 219, 221, 223, 224, 226, 228, 230, 231, 233,
       235, 237, 239, 240, 242, 244, 246, 247, 249, 251, 253, 255 >>
  >>

SoftAlpha(d2, brushSize) == SoftAlphaTable[brushSize][d2 + 1]

\* The offsets (dx, dy) of scratchAt's bounding box, dx and dy in
\* -brushSize .. brushSize, that can write to mask index i: index i lies in
\* column px = i / 240, so dx = px - touchX.
ColumnOffsets(touchX, brushSize, i) ==
  LET dx == (i \div SCREEN_HEIGHT) - touchX
  IN IF Abs(dx) <= brushSize
       THEN {<<dx, dy>> : dy \in -brushSize .. brushSize}
       ELSE {}

\* The mask index offset (dx, dy) writes to, -1 when the bounds checks skip it
\* (lines 613-622): py >= 240 is skipped, py < 0 is moved to row 0.
ScratchTarget(touchX, touchY, dx, dy) ==
  LET px == touchX + dx
      py0 == touchY + dy
      py == IF py0 < 0 THEN 0 ELSE py0
      idx == maskIdxOf(px, py)
  IN IF px < 0 \/ px >= SCREEN_WIDTH \/ py0 >= SCREEN_HEIGHT THEN -1
     ELSE IF idx < 0 \/ idx >= FB_WIDTH * FB_HEIGHT THEN -1
     ELSE idx

\* ShouldDraw with the circle test written with < (a boundary slip).
ShouldDraw_strictCircle(shape, brushSize, dx, dy) ==
  CASE shape = BRUSH_CIRCLE -> dx * dx + dy * dy < brushSize * brushSize
    [] shape = BRUSH_SQUARE -> TRUE
    [] OTHER -> dx * dx + dy * dy <= brushSize * brushSize

\* shouldDraw of the switch (lines 627-659). For the soft brush
\* sqrtf(d2) <= brushSize holds exactly when d2 <= brushSize^2.
ShouldDraw(shape, brushSize, dx, dy) ==
  CASE shape = BRUSH_CIRCLE -> dx * dx + dy * dy <= brushSize * brushSize
    [] shape = BRUSH_SQUARE -> TRUE
    [] shape = BRUSH_SOFT -> dx * dx + dy * dy <= brushSize * brushSize
    [] OTHER -> FALSE

\* The offsets of the box that write to mask index i.
Hits(shape, touchX, touchY, brushSize, i) ==
  {o \in ColumnOffsets(touchX, brushSize, i) :
     /\ ScratchTarget(touchX, touchY, o[1], o[2]) = i
     /\ ShouldDraw(shape, brushSize, o[1], o[2])}

\* WrittenAlpha with the soft brush storing its target alpha without the
\* minimum with the current alpha: the last write (largest dy) stays.
WrittenAlpha_softOverwrite(shape, brushSize, hits, currentAlpha) ==
  IF shape = BRUSH_SOFT
    THEN LET o == CHOOSE o \in hits : \A q \in hits : q[2] <= o[2]
         IN SoftAlpha(o[1] * o[1] + o[2] * o[2], brushSize)
    ELSE 0

\* The value a cell holds after the writes of all offsets in hits (not empty):
\* the hard brushes store 0; each soft write stores the smaller of the cell's
\* current alpha and its target alpha (lines 651-655), so the writes leave the
\* least of the initial alpha and all targets.
WrittenAlpha(shape, brushSize, hits, currentAlpha) ==
  IF shape = BRUSH_SOFT
    THEN LET targets == {SoftAlpha(o[1] * o[1] + o[2] * o[2], brushSize) :
                           o \in hits}
             least == CHOOSE a \in targets : \A b \in targets : a <= b
         IN Min(currentAlpha, least)
    ELSE 0

\* scratchAt without the test of the centre (line 608).
scratchAt_noCentreTest(mask, shape, touchX, touchY, brushSize) ==
  [i \in MaskIdx |->
     LET hits == Hits(shape, touchX, touchY, brushSize, i)
     IN IF hits = {} THEN mask[i]
        ELSE WrittenAlpha(shape, brushSize, hits, mask[i])]

\* scratchAt on the global currentBrushShape (here shape): the result of its
\* two nested loops, cell by cell.
scratchAt(mask, shape, touchX, touchY, brushSize) ==
  IF touchX < 0 \/ touchX >= SCREEN_WIDTH \/ touchY < 0 \/ touchY >= SCREEN_HEIGHT
    THEN mask
    ELSE [i \in MaskIdx |->
            LET hits == Hits(shape, touchX, touchY, brushSize, i)
            IN IF hits = {} THEN mask[i]
               ELSE WrittenAlpha(shape, brushSize, hits, mask[i])]

\* drawLine's while loop; dx, dy, sx, sy are fixed on entry, (x0, y0) and err
\* advance.
RECURSIVE DrawLineLoop(_, _, _, _, _, _, _, _, _, _, _, _)
DrawLineLoop(mask, shape, x0, y0, x1, y1, brushSize, dx, dy, sx, sy, err) ==
  LET e2 == 2 * err
      stepX == e2 > -dy
      stepY == e2 < dx
      err1 == IF stepX THEN err - dy ELSE err
      err2 == IF stepY THEN err1 + dx ELSE err1
  IN Only({IF x0 = x1 /\ y0 = y1 THEN m
           ELSE DrawLineLoop(m, shape,
                             IF stepX THEN x0 + sx ELSE x0,
                             IF stepY THEN y0 + sy ELSE y0,
                             x1, y1, brushSize, dx, dy, sx, sy, err2) :
           m \in {scratchAt(mask, shape, x0, y0, brushSize)}})

drawLine(mask, shape, x0, y0, x1, y1, brushSize) ==
  LET dx == Abs(x1 - x0)
      dy == Abs(y1 - y0)
      sx == IF x0 < x1 THEN 1 ELSE -1
      sy == IF y0 < y1 THEN 1 ELSE -1
  IN DrawLineLoop(mask, shape, x0, y0, x1, y1, brushSize, dx, dy, sx, sy, dx - dy)

\* The brush centres drawLine visits, in order: the same loop as DrawLineLoop
\* with the scratchAt call replaced by recording (x0, y0). fuel bounds the
\* iterations explored; a loop still running when it is spent ends the
\* sequence with NoPoint.
NoPoint == <<-1, -1>>

\* DrawLinePathLoop stepping in y only when it has not stepped in x.
RECURSIVE DrawLinePathLoop_noDiagonal(_, _, _, _, _, _, _, _, _, _)
DrawLinePathLoop_noDiagonal(x0, y0, x1, y1, dx, dy, sx, sy, err, fuel) ==
  LET e2 == 2 * err
      stepX == e2 > -dy
      stepY == ~stepX /\ e2 < dx
      err1 == IF stepX THEN err - dy ELSE err
      err2 == IF stepY THEN err1 + dx ELSE err1
  IN IF x0 = x1 /\ y0 = y1 THEN <<(<<x0, y0>>)>>
     ELSE IF fuel = 0 THEN <<(<<x0, y0>>), NoPoint>>
     ELSE <<(<<x0, y0>>)>> \o
          DrawLinePathLoop_noDiagonal(IF stepX THEN x0 + sx ELSE x0,
                                      IF stepY THEN y0 + sy ELSE y0,
                                      x1, y1, dx, dy, sx, sy, err2, fuel - 1)

RECURSIVE DrawLinePathLoop(_, _, _, _, _, _, _, _, _, _)
DrawLinePathLoop(x0, y0, x1, y1, dx, dy, sx, sy, err, fuel) ==
  LET e2 == 2 * err
      stepX == e2 > -dy
      stepY == e2 < dx
      err1 == IF stepX THEN err - dy ELSE err
      err2 == IF stepY THEN err1 + dx ELSE err1
  IN IF x0 = x1 /\ y0 = y1 THEN <<(<<x0, y0>>)>>
     ELSE IF fuel = 0 THEN <<(<<x0, y0>>), NoPoint>>
     ELSE <<(<<x0, y0>>)>> \o
          DrawLinePathLoop(IF stepX THEN x0 + sx ELSE x0,
                           IF stepY THEN y0 + sy ELSE y0,
                           x1, y1, dx, dy, sx, sy, err2, fuel - 1)

LineFuel == 4 * (MaxLineCoord + 1)

DrawLinePath(x0, y0, x1, y1) ==
  LET dx == Abs(x1 - x0)
      dy == Abs(y1 - y0)
      sx == IF x0 < x1 THEN 1 ELSE -1
      sy == IF y0 < y1 THEN 1 ELSE -1
  IN DrawLinePathLoop(x0, y0, x1, y1, dx, dy, sx, sy, dx - dy, LineFuel)

\* ------------------------------------------------------------------ layers
\* A pixel buffer (baseImage, rotatedImage, compositeBuffer): FB_WIDTH *
\* FB_HEIGHT pixels of 3 bytes B, G, R, indexed from 0. A byte of -1 is a byte
\* of memory that was never written (malloc'ed, not yet rendered).
NumPixels == FB_WIDTH * FB_HEIGHT
PixelBytes == 0 .. NumPixels * 3 - 1
ZeroBuffer == [j \in PixelBytes |-> 0]
UninitBuffer == [j \in PixelBytes |-> -1]
Screen == (0 .. SCREEN_WIDTH - 1) \X (0 .. SCREEN_HEIGHT - 1)

\* rainbowColors as <<r, g, b>>, entry currentColorIndex + 1.
rainbowColors ==
  << <<65, 105, 225>>, <<138, 43, 226>>, <<220, 20, 60>>,
     <<255, 140, 0>>, <<255, 215, 0>>, <<34, 139, 34>> >>

\* The <<b, g, r>> a checkerboard cell gets: the palette colour on odd parity,
\* the background of the mode otherwise.
CheckerColour(mode, colorIndex, cellX, cellY) ==
  LET primaryColor == rainbowColors[colorIndex + 1]
      bgValue == IF mode = MODE_CHECKERBOARD_BLACK THEN 0 ELSE 255
  IN IF (cellX + cellY) % 2 # 0
       THEN <<primaryColor[3], primaryColor[2], primaryColor[1]>>
       ELSE <<bgValue, bgValue, bgValue>>

\* <<b, g, r>> generateCheckerboard computes for screen pixel (x, y).
BasePixel(mode, colorIndex, cellSize, x, y) ==
  IF mode = MODE_COLOR_ON_WHITE THEN <<255, 255, 255>>
  ELSE IF mode = MODE_COLOR_ON_BLACK THEN <<20, 20, 20>>
  ELSE CheckerColour(mode, colorIndex, x \div cellSize, y \div cellSize)

\* <<b, g, r>> generateRotatedCheckerboard computes for screen pixel (x, y).
RotatedPixel(mode, colorIndex, cellSize, x, y) ==
  LET primaryColor == rainbowColors[colorIndex + 1]
      rotX == y
      rotY == SCREEN_WIDTH - x - 1
  IN IF mode = MODE_COLOR_ON_WHITE \/ mode = MODE_COLOR_ON_BLACK
       THEN <<primaryColor[3], primaryColor[2], primaryColor[1]>>
       ELSE CheckerColour(mode, colorIndex, rotX \div cellSize,
                          rotY \div cellSize)

\* The byte offset both generators write pixel (x, y) to (lines 516, 564).
GenOffset(x, y) == (x * FB_WIDTH + (FB_HEIGHT - 1 - y)) * 3

\* The screen pixels whose write lands on byte offset `offset` and passes the
\* range test (lines 519, 566).
GenWriters(offset) ==
  {q \in Screen : /\ GenOffset(q[1], q[2]) = offset
                  /\ offset >= 0
                  /\ offset < FB_WIDTH * FB_HEIGHT * 3 - 2}

\* The last of the writers in loop order, x outer and y inner, both ascending.
LastWriter(writers) ==
  CHOOSE q \in writers :
    \A o \in writers : o[1] * SCREEN_HEIGHT + o[2] <= q[1] * SCREEN_HEIGHT + q[2]

\* generateCheckerboard(buffer, cellSize) under the globals currentMode (mode)
\* and currentColorIndex (colorIndex): the buffer after its two loops.
generateCheckerboard(buffer, cellSize, mode, colorIndex) ==
  [j \in PixelBytes |->
     LET writers == GenWriters((j \div 3) * 3)
     IN IF writers = {} THEN buffer[j]
        ELSE LET q == LastWriter(writers)
             IN BasePixel(mode, colorIndex, cellSize, q[1], q[2])[(j % 3) + 1]]

generateRotatedCheckerboard(buffer, cellSize, mode, colorIndex) ==
  [j \in PixelBytes |->
     LET writers == GenWriters((j \div 3) * 3)
     IN IF writers = {} THEN buffer[j]
        ELSE LET q == LastWriter(writers)
             IN RotatedPixel(mode, colorIndex, cellSize, q[1], q[2])[(j % 3) + 1]]

\* CompositeChannel with the two layers exchanged.
CompositeChannel_swapped(bottom, top, alpha) ==
  ((top * (255 - alpha) + bottom * alpha) \div 255) % 256

\* One channel of compositeImage (lines 590-592): int arithmetic, truncating
\* division, the result stored in a u8.
CompositeChannel(bottom, top, alpha) ==
  ((bottom * (255 - alpha) + top * alpha) \div 255) % 256

\* compositeImage(dest, bottom, top, mask): the dest it leaves.
compositeImage(bottom, top, mask) ==
  [j \in PixelBytes |-> CompositeChannel(bottom[j], top[j], mask[j \div 3])]

\* ------------------------------------------------------- the top screen
\* The canvas is centred on the top screen between two black borders of 40
\* columns (400 = 320 + 2 * 40).
TopBorder == 40
TopWidth == SCREEN_WIDTH + 2 * TopBorder

\* A top-screen frame is topScreenBuffer after the memset to 0 and the copy
\* loop: a function from the pixel indices the loop wrote to the <<b, g, r>>
\* it left there; every other pixel is black.
SrcPixel(buffer, x, y) ==
  LET srcIdx == (x * SCREEN_HEIGHT + (SCREEN_HEIGHT - 1 - y)) * 3
  IN <<buffer[srcIdx], buffer[srcIdx + 1], buffer[srcIdx + 2]>>

TopPixelIdx(dstX, y) == dstX * SCREEN_HEIGHT + (SCREEN_HEIGHT - 1 - y)

\* TruncDepth rounding toward minus infinity.
TruncDepth_floor(depth) == depth \div 1000

\* (int)depthOffset: the float, kept in thousandths, truncated toward zero.
TruncDepth(depth) ==
  IF depth >= 0 THEN depth \div 1000 ELSE -((-depth) \div 1000)

\* dstX of the left-eye loop (line 1270) and of the right-eye loop
\* (lines 1279-1285).
LeftDstX(x) == x + TopBorder
RightDstX(mask, depth, x, y) ==
  LET maskIdx == x * SCREEN_HEIGHT + (SCREEN_HEIGHT - 1 - y)
      alpha == mask[maskIdx]
  IN IF alpha > 128 THEN x + TopBorder + TruncDepth(depth) ELSE x + TopBorder

\* The left-eye frame (lines 1264-1274): every destination has one source.
LeftEyeFrame(buffer) ==
  [i \in {TopPixelIdx(LeftDstX(q[1]), q[2]) : q \in Screen} |->
     LET y == SCREEN_HEIGHT - 1 - (i % SCREEN_HEIGHT)
         x == (i \div SCREEN_HEIGHT) - TopBorder
     IN SrcPixel(buffer, x, y)]

\* The right-eye frame (lines 1277-1295): a pixel whose dstX is outside
\* 0 .. 399 is skipped. The destination (dstX, y) is written from x = dstX - 40
\* when that pixel is not shifted and from x = dstX - 40 - (int)depthOffset
\* when that pixel is shifted; when both write it, the larger x, later in the
\* loop, stays.
RightEyeWriters(mask, depth) ==
  {q \in Screen : LET dstX == RightDstX(mask, depth, q[1], q[2])
                  IN dstX >= 0 /\ dstX < TopWidth}

RightEyeSource(mask, depth, i) ==
  LET y == SCREEN_HEIGHT - 1 - (i % SCREEN_HEIGHT)
      dstX == i \div SCREEN_HEIGHT
      plain == dstX - TopBorder
      shifted == dstX - TopBorder - TruncDepth(depth)
      plainWrites == /\ plain >= 0 /\ plain < SCREEN_WIDTH
                     /\ RightDstX(mask, depth, plain, y) = dstX
      shiftedWrites == /\ shifted >= 0 /\ shifted < SCREEN_WIDTH
                       /\ RightDstX(mask, depth, shifted, y) = dstX
  IN IF plainWrites /\ (~shiftedWrites \/ plain >= shifted)
       THEN <<plain, y>>
       ELSE <<shifted, y>>

RightEyeFrame(buffer, mask, depth) ==
  [i \in {TopPixelIdx(RightDstX(mask, depth, q[1], q[2]), q[2]) :
            q \in RightEyeWriters(mask, depth)} |->
     LET q == RightEyeSource(mask, depth, i)
     IN SrcPixel(buffer, q[1], q[2])]

\* --------------------------------------------------------------- BMP files
\* A file of the SD card: exists says whether fopen succeeds, bytes is its
\* content. env is what the environment decides in a call: the content of
\* memory read before it was written (magic, width, height of readBMPHeader,
\* a byte of a malloc'ed block) and whether malloc succeeds.
NoFile == [exists |-> FALSE, bytes |-> <<>>]
Envs ==
  {[magic |-> <<66, 77>>, width |-> SCREEN_WIDTH, height |-> SCREEN_HEIGHT,
    byte |-> 170, mallocOk |-> TRUE],
   [magic |-> <<0, 0>>, width |-> 0, height |-> 0, byte |-> 0,
    mallocOk |-> TRUE],
   [magic |-> <<66, 77>>, width |-> SCREEN_WIDTH, height |-> SCREEN_HEIGHT,
    byte |-> 170, mallocOk |-> FALSE]}

\* A buffer as the machine reads it: a never-written byte reads as env.byte.
Resolve(buffer, env) ==
  [j \in PixelBytes |-> IF buffer[j] < 0 THEN env.byte ELSE buffer[j]]

\* fwrite of a u32 / u16 on the little-endian ARM11.
LE32(n) ==
  <<n % 256, (n \div 256) % 256, (n \div 65536) % 256, (n \div 16777216) % 256>>
LE16(n) == <<n % 256, (n \div 256) % 256>>

\* fread of a u32 at byte offset `at` (counted from 0) of a complete field.
ReadLE32(bytes, at) ==
  bytes[at + 1] + 256 * bytes[at + 2] + 65536 * bytes[at + 3]
    + 16777216 * bytes[at + 4]

\* BmpHeader with the file size field holding the size of the pixel data.
BmpHeader_dataSize ==
  <<66, 77>> \o LE32(SCREEN_WIDTH * SCREEN_HEIGHT * 3) \o <<0, 0, 0, 0>>
    \o LE32(54) \o LE32(40) \o LE32(SCREEN_WIDTH) \o LE32(SCREEN_HEIGHT)
    \o LE16(1) \o LE16(24)
    \o [k \in 1 .. 24 |-> 0]

\* The 54 header bytes saveScreenshot writes (lines 881-905); the literals
\* 320 and 240 are SCREEN_WIDTH and SCREEN_HEIGHT.
BmpHeader ==
  <<66, 77>> \o LE32(54 + SCREEN_WIDTH * SCREEN_HEIGHT * 3) \o <<0, 0, 0, 0>>
    \o LE32(54) \o LE32(40) \o LE32(SCREEN_WIDTH) \o LE32(SCREEN_HEIGHT)
    \o LE16(1) \o LE16(24)
    \o [k \in 1 .. 24 |-> 0]

\* The pixel bytes saveScreenshot writes (lines 908-914): rows y = 239 down to
\* 0, x ascending, 3 bytes from framebuffer index (x * 240 + (239 - y)) * 3.
BmpPixelData(framebuffer) ==
  [k \in 1 .. SCREEN_WIDTH * SCREEN_HEIGHT * 3 |->
     LET p == (k - 1) \div 3
         y == SCREEN_HEIGHT - 1 - (p \div SCREEN_WIDTH)
         x == p % SCREEN_WIDTH
         idx == (x * SCREEN_HEIGHT + (SCREEN_HEIGHT - 1 - y)) * 3
     IN framebuffer[idx + ((k - 1) % 3)]]

\* The file saveScreenshot leaves when fopen succeeds.
saveScreenshot(framebuffer) ==
  [exists |-> TRUE, bytes |-> BmpHeader \o BmpPixelData(framebuffer)]

\* readBMPHeader (lines 115-130): no fread result is tested, so what a short
\* file does not supply keeps the memory's earlier content.
readBMPHeader(bytes, env) ==
  LET magic0 == IF Len(bytes) >= 1 THEN bytes[1] ELSE env.magic[1]
      magic1 == IF Len(bytes) >= 2 THEN bytes[2] ELSE env.magic[2]
  IN [ok |-> magic0 = 66 /\ magic1 = 77,
      width |-> IF Len(bytes) >= 22 THEN ReadLE32(bytes, 18) ELSE env.width,
      height |-> IF Len(bytes) >= 26 THEN ReadLE32(bytes, 22) ELSE env.height]

\* Whether loadDrawing returns true (lines 244-264).
LoadOk(file, env) ==
  /\ file.exists
  /\ LET hdr == readBMPHeader(file.bytes, env)
     IN hdr.ok /\ hdr.width = SCREEN_WIDTH /\ hdr.height = SCREEN_HEIGHT
  /\ env.mallocOk

\* pixelData after the fread at offset 54 (lines 267-269), indexed from 0.
PixelData(bytes, env) ==
  [k \in PixelBytes |-> IF Len(bytes) >= 54 + k + 1 THEN bytes[54 + k + 1]
                        ELSE env.byte]

\* LoadBmpIdx reading the rows top to bottom.
LoadBmpIdx_topDown(x, y) == (y * SCREEN_WIDTH + x) * 3

\* bmpIdx and fbIdx of loadDrawing's copy loop (lines 275-276).
LoadBmpIdx(x, y) == ((SCREEN_HEIGHT - 1 - y) * SCREEN_WIDTH + x) * 3
LoadFbIdx(x, y) == (x * SCREEN_HEIGHT + (SCREEN_HEIGHT - 1 - y)) * 3

\* A layer after the copy loop (lines 273-288).
LoadedLayer(buffer, pixelData) ==
  [j \in PixelBytes |->
     LET writers == {q \in Screen : LoadFbIdx(q[1], q[2]) = (j \div 3) * 3}
     IN IF writers = {} THEN buffer[j]
        ELSE LET q == LastWriter(writers)
             IN pixelData[LoadBmpIdx(q[1], q[2]) + (j % 3)]]

\* ----------------------------------------------------------------- history
\* pushUndo, undo and redo act on the globals scratchMask, undoStack,
\* undoTop, redoStack, redoTop: here the fields of a record h.
HistSlots == 0 .. (MAX_HISTORY - 1)

\* pushUndo that, when the stack is full, overwrites the newest slot without
\* shifting the older entries down.
pushUndo_noShift(h) ==
  LET top == IF h.undoTop >= MAX_HISTORY THEN MAX_HISTORY - 1 ELSE h.undoTop
  IN [h EXCEPT !.undoStack = [h.undoStack EXCEPT ![top] = h.scratchMask],
               !.undoTop = top + 1,
               !.redoTop = 0]

pushUndo(h) ==
  LET full == h.undoTop >= MAX_HISTORY
      shifted == IF full
                   THEN [i \in HistSlots |->
                           IF i < MAX_HISTORY - 1 THEN h.undoStack[i + 1]
                                                  ELSE h.undoStack[i]]
                   ELSE h.undoStack
      top == IF full THEN MAX_HISTORY - 1 ELSE h.undoTop
  IN [h EXCEPT !.undoStack = [shifted EXCEPT ![top] = h.scratchMask],
               !.undoTop = top + 1,
               !.redoTop = 0]

\* undo with the restore reading undoStack[undoTop--]: the slot above the top.
undo_postDecrement(h) ==
  IF h.undoTop > 0
    THEN [h EXCEPT !.redoStack = [h.redoStack EXCEPT ![h.redoTop] = h.scratchMask],
                   !.redoTop = h.redoTop + 1,
                   !.undoTop = h.undoTop - 1,
                   !.scratchMask = h.undoStack[h.undoTop]]
    ELSE h

\* undo with the save to the redo stack placed before the emptiness test.
undo_saveBeforeTest(h) ==
  LET saved == [h EXCEPT
                  !.redoStack = [h.redoStack EXCEPT ![h.redoTop] = h.scratchMask],
                  !.redoTop = h.redoTop + 1]
  IN IF h.undoTop > 0
       THEN [saved EXCEPT !.undoTop = h.undoTop - 1,
                          !.scratchMask = h.undoStack[h.undoTop - 1]]
       ELSE saved

undo(h) ==
  IF h.undoTop > 0
    THEN [h EXCEPT !.redoStack = [h.redoStack EXCEPT ![h.redoTop] = h.scratchMask],
                   !.redoTop = h.redoTop + 1,
                   !.undoTop = h.undoTop - 1,
                   !.scratchMask = h.undoStack[h.undoTop - 1]]
    ELSE h

redo(h) ==
  IF h.redoTop > 0
    THEN [h EXCEPT !.undoStack = [h.undoStack EXCEPT ![h.undoTop] = h.scratchMask],
                   !.undoTop = h.undoTop + 1,
                   !.redoTop = h.redoTop - 1,
                   !.scratchMask = h.redoStack[h.redoTop - 1]]
    ELSE h

\* --------------------------------------------------------------- variables
VARIABLES
  \* globals of main.c
  scratchMask, undoStack, redoStack, undoTop, redoTop,
  currentColorIndex, currentMode, currentBrushShape,
  allowDrawing, showInstructions, showGallery, depthOffset,
  prevTouchX, prevTouchY, galleryImageCount, selectedGalleryIndex,
  \* locals of main()
  brushSize, wasTouching, kHeld,
  \* history variables, read by the properties only
  steps,     \* operations (SpecHist, SpecEvict, SpecBrush) or frames (Spec)
  last,      \* SpecHist, SpecEvict, SpecBrush: the last call and its arguments
  obs,       \* Spec: what the last frame did, in order
  stroke,    \* Spec: the touch contact in progress and the last edit unit
  \* the two layers (globals), main()'s compositeBuffer, the exported file
  baseImage, rotatedImage, compositeBuffer, sdFile,
  \* the two top-screen framebuffers (left eye, right eye)
  fbTopLeft, fbTopRight,
  \* history variable: the image of the last import, until the next change
  \* of mode or colour
  imported

histVars == <<scratchMask, undoStack, redoStack, undoTop, redoTop>>
styleVars == <<currentColorIndex, currentMode, currentBrushShape, brushSize,
               depthOffset>>
uiVars == <<allowDrawing, showInstructions, showGallery, prevTouchX, prevTouchY,
            galleryImageCount, selectedGalleryIndex, wasTouching>>
inputVars == <<kHeld>>
layerVars == <<baseImage, rotatedImage, compositeBuffer, sdFile, imported,
               fbTopLeft, fbTopRight>>
vars == <<histVars, styleVars, uiVars, inputVars, steps, last, obs, stroke,
          layerVars>>

\* The history globals as the record pushUndo / undo / redo act on.
Hist == [scratchMask |-> scratchMask, undoStack |-> undoStack, undoTop |-> undoTop,
         redoStack |-> redoStack, redoTop |-> redoTop]

SetHist(h) ==
  /\ scratchMask' = h.scratchMask
  /\ undoStack' = h.undoStack
  /\ undoTop' = h.undoTop
  /\ redoStack' = h.redoStack
  /\ redoTop' = h.redoTop

NoTouch == [px |-> -1, py |-> -1]
NoStroke == [snaps |-> 0, drew |-> FALSE, snapFirst |-> TRUE, fresh |-> FALSE,
             strokeStart |-> ClearMask, unitStart |-> ClearMask,
             pending |-> FALSE]
NoImage == [j \in PixelBytes |-> -2]
\* A top-screen framebuffer the canvas rendering has not written yet.
NoTopFrame == [i \in {-1} |-> <<-1, -1, -1>>]

\* The state main() enters its loop with: static initialisers (lines 39-40,
\* 79-107), zero-filled history arrays, the two layers generated over their
\* zero-filled arrays (lines 954-955), the mask memset to 255 (line 956), the
\* malloc'ed compositeBuffer (line 959) and brushSize / wasTouching
\* (lines 962-963).
ProgramInit ==
  /\ scratchMask = ClearMask
  /\ undoStack = [i \in HistSlots |-> ZeroMask]
  /\ redoStack = [i \in HistSlots |-> ZeroMask]
  /\ undoTop = 0
  /\ redoTop = 0
  /\ currentColorIndex = 0
  /\ currentMode = MODE_CHECKERBOARD_WHITE
  /\ currentBrushShape = BRUSH_CIRCLE
  /\ allowDrawing = FALSE
  /\ showInstructions = TRUE
  /\ showGallery = FALSE
  /\ depthOffset = InitDepth
  /\ prevTouchX = -1
  /\ prevTouchY = -1
  /\ galleryImageCount \in 0 .. MaxGallery
  /\ selectedGalleryIndex = 0
  /\ brushSize = InitBrushSize
  /\ wasTouching = FALSE
  /\ kHeld = {}
  /\ steps = 0
  /\ obs = <<>>
  /\ stroke = NoStroke
  /\ baseImage = generateCheckerboard(ZeroBuffer, CellSize,
                                      MODE_CHECKERBOARD_WHITE, 0)
  /\ rotatedImage = generateRotatedCheckerboard(ZeroBuffer, CellSize,
                                                MODE_CHECKERBOARD_WHITE, 0)
  /\ compositeBuffer = UninitBuffer
  /\ sdFile = NoFile
  /\ imported = NoImage
  /\ fbTopLeft = NoTopFrame
  /\ fbTopRight = NoTopFrame

Init ==
  /\ ProgramInit
  /\ last = [op |-> "init"]

\* ------------------------------------------------- SpecBrush: scratchAt
\* scratchAt is applied twice from the cleared mask: BrushPrepare makes the mask
\* the second application starts from, BrushApply is the application the
\* properties look at. currentBrushShape is the global scratchAt reads.
Centres == (0 .. SCREEN_WIDTH - 1) \X (0 .. SCREEN_HEIGHT - 1)
Radii == 1 .. MaxRadius
\* Two opposite corners of the touch screen: the positions the history
\* specifications and the stylus of the main loop use.
TouchPoints == {<<0, 0>>, <<SCREEN_WIDTH - 1, SCREEN_HEIGHT - 1>>}

BrushCall(op, shape, c, r) ==
  /\ currentBrushShape' = shape
  /\ scratchMask' = scratchAt(scratchMask, shape, c[1], c[2], r)
  /\ last' = [op |-> op, shape |-> shape, x |-> c[1], y |-> c[2], r |-> r]
  /\ steps' = steps + 1
  /\ UNCHANGED <<undoStack, redoStack, undoTop, redoTop, currentColorIndex,
                 currentMode, brushSize, depthOffset, uiVars, inputVars, obs,
                 stroke, layerVars>>

BrushPrepare ==
  /\ steps = 0
  /\ \E shape \in BrushShapes, c \in Centres, r \in Radii :
       BrushCall("prepare", shape, c, r)

BrushApply ==
  /\ steps = 1
  /\ \E shape \in BrushShapes, c \in Centres, r \in Radii :
       BrushCall("scratchAt", shape, c, r)

NextBrush == BrushPrepare \/ BrushApply

SpecBrush == Init /\ [][NextBrush]_vars

\* ------------------------------------ SpecHist: pushUndo / undo / redo
\* The three history functions and the two mask edits of the program (a brush
\* application, a clear), called in any order, at most MaxOps calls and
\* MaxEdits brush applications. last.phase follows the sequence
\* pushUndo, edits, undo, redo: "snap" after pushUndo (m0 the mask it saved),
\* "undone" after the undo that follows (m1 the mask that undo replaced),
\* "redone" after the redo directly after that undo.
HistCall(op, h, phase, m0, m1, edits) ==
  /\ steps < MaxOps
  /\ SetHist(h)
  /\ steps' = steps + 1
  /\ last' = [op |-> op, phase |-> phase, m0 |-> m0, m1 |-> m1, edits |-> edits,
              emptyBefore |-> IF op = "undo" THEN undoTop = 0
                              ELSE IF op = "redo" THEN redoTop = 0 ELSE FALSE]
  /\ UNCHANGED <<styleVars, uiVars, inputVars, obs, stroke, layerVars>>

LastPhase == IF last.op = "init" THEN "none" ELSE last.phase
LastM0 == IF last.op = "init" THEN ClearMask ELSE last.m0
LastM1 == IF last.op = "init" THEN ClearMask ELSE last.m1
LastEdits == IF last.op = "init" THEN 0 ELSE last.edits

HistPush ==
  HistCall("pushUndo", pushUndo(Hist), "snap", scratchMask, scratchMask, LastEdits)

HistEdit ==
  /\ LastEdits < MaxEdits
  /\ \E c \in TouchPoints :
       HistCall("scratchAt",
                [Hist EXCEPT !.scratchMask =
                   scratchAt(scratchMask, currentBrushShape, c[1], c[2], 1)],
                IF LastPhase = "snap" THEN "snap" ELSE "none",
                LastM0, LastM1, LastEdits + 1)

HistClear ==
  HistCall("clear", [Hist EXCEPT !.scratchMask = ClearMask],
           IF LastPhase = "snap" THEN "snap" ELSE "none",
           LastM0, LastM1, LastEdits)

HistUndo ==
  HistCall("undo", undo(Hist),
           IF LastPhase = "snap" THEN "undone" ELSE "none",
           LastM0, scratchMask, LastEdits)

HistRedo ==
  HistCall("redo", redo(Hist),
           IF LastPhase = "undone" THEN "redone" ELSE "none",
           LastM0, LastM1, LastEdits)

NextHist == HistPush \/ HistEdit \/ HistClear \/ HistUndo \/ HistRedo

SpecHist == Init /\ [][NextHist]_vars


\* ------------------------------------------- SpecEvict: a full undo stack
\* pushUndo called up to MaxPushes times in a row, with one brush application
\* at any point among the calls (it makes the pushed masks differ), then undo
\* called repeatedly.
\* last.pushed lists the masks pushed, in order; last.undone counts the undos.
EvPushed == IF last.op = "init" THEN <<>> ELSE last.pushed
EvUndone == IF last.op = "init" THEN 0 ELSE last.undone

EvCall(op, h, pushed, undone, edits) ==
  /\ SetHist(h)
  /\ steps' = steps + 1
  /\ last' = [op |-> op, pushed |-> pushed, undone |-> undone, edits |-> edits]
  /\ UNCHANGED <<styleVars, uiVars, inputVars, obs, stroke, layerVars>>

EvPush ==
  /\ EvUndone = 0
  /\ Len(EvPushed) < MaxPushes
  /\ EvCall("pushUndo", pushUndo(Hist), Append(EvPushed, scratchMask), 0,
            LastEdits)

EvEdit ==
  /\ EvUndone = 0
  /\ LastEdits < 1
  /\ \E c \in TouchPoints :
       EvCall("scratchAt",
              [Hist EXCEPT !.scratchMask =
                 scratchAt(scratchMask, currentBrushShape, c[1], c[2], 1)],
              EvPushed, 0, LastEdits + 1)

EvUndo ==
  /\ Len(EvPushed) > 0
  /\ EvUndone <= MAX_HISTORY
  /\ EvCall("undo", undo(Hist), EvPushed, EvUndone + 1, LastEdits)

NextEvict == EvPush \/ EvEdit \/ EvUndo

SpecEvict == Init /\ [][NextEvict]_vars

\* --------------------------------------------------- SpecLine: drawLine
\* drawLine between two touch positions chosen at the start, called up to
\* twice (the second call draws over the mask the first left), with brush
\* size 1 and any brush shape. Positions outside the reduced mask are
\* positions scratchAt returns from at once. last keeps the endpoints, the
\* mask before the call (m0) and the centres visited (path).
LineCoords == 0 .. MaxLineCoord

InitLine ==
  /\ ProgramInit
  /\ last \in {[op |-> "endpoints", x0 |-> a, y0 |-> b, x1 |-> c, y1 |-> d,
                shape |-> BRUSH_CIRCLE, m0 |-> ClearMask, path |-> <<>>] :
               a \in LineCoords, b \in LineCoords,
               c \in LineCoords, d \in LineCoords}

LineDraw ==
  /\ steps < 2
  /\ \E shape \in BrushShapes :
       /\ currentBrushShape' = shape
       /\ scratchMask' = drawLine(scratchMask, shape, last.x0, last.y0,
                                  last.x1, last.y1, 1)
       /\ last' = [last EXCEPT !.op = "drawLine", !.shape = shape,
                               !.m0 = scratchMask,
                               !.path = DrawLinePath(last.x0, last.y0,
                                                     last.x1, last.y1)]
  /\ steps' = steps + 1
  /\ UNCHANGED <<undoStack, redoStack, undoTop, redoTop, currentColorIndex,
                 currentMode, brushSize, depthOffset, uiVars, inputVars, obs,
                 stroke, layerVars>>

NextLine == LineDraw

SpecLine == InitLine /\ [][NextLine]_vars

\* ------------------------------------------ SpecComposite: compositeImage
\* CompositeSetup puts sample contents in the two layers and the mask (what
\* imports and soft strokes can leave there); CompositeRender is the call
\* compositeImage(compositeBuffer, rotatedImage, baseImage, scratchMask) of
\* the rendering (line 1257).
ByteSamples == {0, 1, 127, 128, 254, 255}
SampleImage == [j \in PixelBytes |-> (j * 37 + 11) % 256]
SampleBuffers == {[j \in PixelBytes |-> v] : v \in ByteSamples} \cup {SampleImage}
SampleMasks ==
  {[i \in MaskIdx |-> v] : v \in ByteSamples} \cup {[i \in MaskIdx |-> (i * 51) % 256]}

CompositeSetup ==
  /\ steps = 0
  /\ \E bottom \in SampleBuffers, top \in SampleBuffers, mask \in SampleMasks :
       /\ rotatedImage' = bottom
       /\ baseImage' = top
       /\ scratchMask' = mask
  /\ steps' = 1
  /\ last' = [op |-> "setup"]
  /\ UNCHANGED <<undoStack, redoStack, undoTop, redoTop, styleVars, uiVars,
                 inputVars, obs, stroke, compositeBuffer, sdFile, imported,
                 fbTopLeft, fbTopRight>>

CompositeRender ==
  /\ steps = 1
  /\ compositeBuffer' = compositeImage(rotatedImage, baseImage, scratchMask)
  /\ steps' = 2
  /\ last' = [op |-> "compositeImage"]
  /\ UNCHANGED <<histVars, styleVars, uiVars, inputVars, obs, stroke,
                 baseImage, rotatedImage, sdFile, imported, fbTopLeft,
                 fbTopRight>>

NextComposite == CompositeSetup \/ CompositeRender

SpecComposite == Init /\ [][NextComposite]_vars

\* ------------------------------------- SpecStereo: the top-screen rendering
\* StereoSetup puts a mask, a depth and a composite in place; StereoRender is
\* the two copy loops of the rendering (lines 1263-1296). The masks hold the
\* alphas on either side of the test alpha > 128. The depths are values the
\* stick reaches between the clamps and, to exercise the range test of
\* line 1285, two values beyond them that push a column off either edge. The
\* composite is an imported drawing whose pixels all differ.
StereoMasks ==
  {[i \in MaskIdx |-> v] : v \in {0, 128, 129, 255}}
    \cup {[i \in MaskIdx |-> IF i % 2 = 0 THEN 129 ELSE 128],
          [i \in MaskIdx |-> IF i % 3 = 0 THEN 0 ELSE 255]}
StereoDepths ==
  {MinDepth, -1150, -150, 0, 2850, InitDepth, MaxDepth,
   -(TopBorder * 1000) - 1500, (TopBorder + SCREEN_WIDTH - 1) * 1000}

StereoSetup ==
  /\ steps = 0
  /\ scratchMask' \in StereoMasks
  /\ depthOffset' \in StereoDepths
  /\ compositeBuffer' = SampleImage
  /\ steps' = 1
  /\ last' = [op |-> "setup"]
  /\ UNCHANGED <<undoStack, redoStack, undoTop, redoTop, currentColorIndex,
                 currentMode, currentBrushShape, brushSize, uiVars, inputVars,
                 obs, stroke, baseImage, rotatedImage, sdFile, imported,
                 fbTopLeft, fbTopRight>>

StereoRender ==
  /\ steps = 1
  /\ fbTopLeft' = LeftEyeFrame(compositeBuffer)
  /\ fbTopRight' = RightEyeFrame(compositeBuffer, scratchMask, depthOffset)
  /\ steps' = 2
  /\ last' = [op |-> "renderTop"]
  /\ UNCHANGED <<histVars, styleVars, uiVars, inputVars, obs, stroke,
                 baseImage, rotatedImage, compositeBuffer, sdFile, imported>>

NextStereo == StereoSetup \/ StereoRender

SpecStereo == Init /\ [][NextStereo]_vars

\* ------------------------------------------ SpecEdge: scratchAt at the edges
\* scratchAt applied at a centre on or one step outside the screen, to the
\* cleared mask or to a mask a corner application has left.
EdgeCentres == (-1 .. SCREEN_WIDTH) \X (-1 .. SCREEN_HEIGHT)

EdgePrepare ==
  /\ steps = 0
  /\ \E shape \in BrushShapes, c \in TouchPoints, r \in Radii :
       BrushCall("prepare", shape, c, r)

EdgeApply ==
  /\ steps = 1
  /\ \E shape \in BrushShapes, c \in EdgeCentres, r \in Radii :
       BrushCall("scratchAt", shape, c, r)

NextEdge == EdgePrepare \/ EdgeApply

SpecEdge == Init /\ [][NextEdge]_vars

\* ------------------------------------------------------ Spec: the main loop
\* One frame action is one iteration of while (aptMainLoop()): the scan of the
\* inputs and every handler the iteration runs, in the order of the code. The
\* handlers are operators on the record s of all variables; the inputs of the
\* iteration (keys down / held, touch position, stick, what the SD card
\* holds) are their arguments.
\*
\* Not modelled: galleryScrollOffset and the circle-pad gallery navigation
\* (they only pick which thumbnail is shown and selected) and what the
\* instruction and gallery screens draw.
Buttons == {"START", "SELECT", "A", "B", "X", "Y", "L", "R",
            "DUP", "DDOWN", "DLEFT", "DRIGHT"}
KEY_TOUCH == "TOUCH"
THUMBNAILS_PER_ROW == 4
\* pos.dy of the circle pad: pushed down, at rest, pushed up.
StickDy == {-150, 0, 150}

Cur ==
  [scratchMask |-> scratchMask, undoStack |-> undoStack, undoTop |-> undoTop,
   redoStack |-> redoStack, redoTop |-> redoTop,
   currentColorIndex |-> currentColorIndex, currentMode |-> currentMode,
   currentBrushShape |-> currentBrushShape, allowDrawing |-> allowDrawing,
   showInstructions |-> showInstructions, showGallery |-> showGallery,
   depthOffset |-> depthOffset, prevTouchX |-> prevTouchX,
   prevTouchY |-> prevTouchY, galleryImageCount |-> galleryImageCount,
   selectedGalleryIndex |-> selectedGalleryIndex, brushSize |-> brushSize,
   wasTouching |-> wasTouching, obs |-> obs, stroke |-> stroke,
   baseImage |-> baseImage, rotatedImage |-> rotatedImage,
   compositeBuffer |-> compositeBuffer, sdFile |-> sdFile,
   imported |-> imported, fbTopLeft |-> fbTopLeft,
   fbTopRight |-> fbTopRight]

SetAll(s) ==
  /\ SetHist(s)
  /\ currentColorIndex' = s.currentColorIndex
  /\ currentMode' = s.currentMode
  /\ currentBrushShape' = s.currentBrushShape
  /\ allowDrawing' = s.allowDrawing
  /\ showInstructions' = s.showInstructions
  /\ showGallery' = s.showGallery
  /\ depthOffset' = s.depthOffset
  /\ prevTouchX' = s.prevTouchX
  /\ prevTouchY' = s.prevTouchY
  /\ galleryImageCount' = s.galleryImageCount
  /\ selectedGalleryIndex' = s.selectedGalleryIndex
  /\ brushSize' = s.brushSize
  /\ wasTouching' = s.wasTouching
  /\ obs' = s.obs
  /\ stroke' = s.stroke
  /\ baseImage' = s.baseImage
  /\ rotatedImage' = s.rotatedImage
  /\ compositeBuffer' = s.compositeBuffer
  /\ sdFile' = s.sdFile
  /\ imported' = s.imported
  /\ fbTopLeft' = s.fbTopLeft
  /\ fbTopRight' = s.fbTopRight

\* History variable obs: the event, with redoTop and the freshness of the
\* stroke cursor at that moment.
Log(s, name) ==
  [s EXCEPT !.obs = Append(@, [ev |-> name, redoTop |-> s.redoTop,
                                fresh |-> s.stroke.fresh])]

\* History variable stroke at the scan: a scan without contact ends the
\* contact in progress; if that contact drew, its stroke is now a completed
\* edit unit that began at stroke.strokeStart.
BeginFrame(s, kh) ==
  LET s0 == [s EXCEPT !.obs = <<>>]
  IN IF KEY_TOUCH \in kh THEN s0
     ELSE [s0 EXCEPT
             !.stroke = [@ EXCEPT
                !.unitStart = IF s.stroke.drew THEN s.stroke.strokeStart ELSE @,
                !.pending = IF s.stroke.drew THEN TRUE ELSE @,
                !.snaps = 0, !.drew = FALSE, !.snapFirst = TRUE,
                !.fresh = FALSE]]

\* START toggles the instruction screen (lines 972-979).
KeyStart(s, kd) ==
  IF "START" \in kd
    THEN LET gallery == FALSE
             instr == ~s.showInstructions
         IN Log([s EXCEPT !.showGallery = gallery,
                          !.showInstructions = instr,
                          !.allowDrawing = ~instr /\ ~gallery], "start")
    ELSE s

\* SELECT toggles the gallery; opening it rescans the SD card, which finds
\* scanCount loadable images (lines 982-1001).
KeySelect(s, kd, scanCount) ==
  IF "SELECT" \in kd
    THEN LET s1 == [s EXCEPT !.showInstructions = FALSE,
                             !.showGallery = ~s.showGallery]
         IN Log(IF s1.showGallery
                  THEN [s1 EXCEPT !.galleryImageCount = scanCount,
                                  !.selectedGalleryIndex = 0,
                                  !.allowDrawing = FALSE]
                  ELSE [s1 EXCEPT !.allowDrawing = TRUE], "select")
    ELSE s

\* Any other key (KEY_TOUCH included) dismisses the instruction screen
\* (lines 1004-1007).
DismissInstructions(s, kd) ==
  IF s.showInstructions /\ kd # {} /\ "START" \notin kd /\ "SELECT" \notin kd
    THEN Log([s EXCEPT !.showInstructions = FALSE, !.allowDrawing = FALSE],
             "dismiss")
    ELSE s

\* Lines 1010-1012.
AutoEnableDrawing(s, kh) ==
  IF ~s.showInstructions /\ ~s.showGallery /\ ~s.allowDrawing /\ KEY_TOUCH \notin kh
    THEN [s EXCEPT !.allowDrawing = TRUE]
    ELSE s

\* Both layers regenerated from the current mode and colour
\* (lines 1139-1140, 1156-1157, 1163-1164).
Regenerate(s) ==
  [s EXCEPT
     !.baseImage = generateCheckerboard(@, CellSize, s.currentMode,
                                        s.currentColorIndex),
     !.rotatedImage = generateRotatedCheckerboard(@, CellSize, s.currentMode,
                                                  s.currentColorIndex),
     !.imported = NoImage]

\* loadDrawing (lines 243-299): when the file opens, has the BM magic and the
\* screen's dimensions, and malloc succeeds, the pixel data is copied to both
\* layers, the mask reset to 255 and both history indices to 0; otherwise
\* nothing changes.
loadDrawing(s, file, env) ==
  IF LoadOk(file, env)
    THEN [s EXCEPT
            !.baseImage = LoadedLayer(@, PixelData(file.bytes, env)),
            !.rotatedImage = LoadedLayer(@, PixelData(file.bytes, env)),
            !.scratchMask = ClearMask, !.undoTop = 0, !.redoTop = 0]
    ELSE s

\* The D-pad moves the gallery selection (lines 1017-1067).
GalleryDRight(s, kd) ==
  IF "DRIGHT" \in kd
    THEN [s EXCEPT !.selectedGalleryIndex =
            IF @ + 1 >= s.galleryImageCount THEN 0 ELSE @ + 1]
    ELSE s

GalleryDLeft(s, kd) ==
  IF "DLEFT" \in kd
    THEN [s EXCEPT !.selectedGalleryIndex =
            IF @ - 1 < 0 THEN s.galleryImageCount - 1 ELSE @ - 1]
    ELSE s

GalleryDDown(s, kd) ==
  IF "DDOWN" \in kd
    THEN [s EXCEPT !.selectedGalleryIndex =
            IF @ + THUMBNAILS_PER_ROW >= s.galleryImageCount
              THEN s.galleryImageCount - 1 ELSE @ + THUMBNAILS_PER_ROW]
    ELSE s

GalleryDUp(s, kd) ==
  IF "DUP" \in kd
    THEN [s EXCEPT !.selectedGalleryIndex =
            IF @ - THUMBNAILS_PER_ROW < 0 THEN 0 ELSE @ - THUMBNAILS_PER_ROW]
    ELSE s

\* A loads the selected image, file being what the card holds under its
\* name, and on success regenerates the rotated layer (lines 1116-1123).
GalleryLoad(s, kd, file, env) ==
  IF "A" \in kd
    THEN IF LoadOk(file, env)
           THEN LET loaded == loadDrawing(s, file, env)
                IN Log([loaded EXCEPT
                          !.showGallery = FALSE, !.allowDrawing = TRUE,
                          !.rotatedImage =
                             generateRotatedCheckerboard(@, CellSize,
                                                         s.currentMode,
                                                         s.currentColorIndex),
                          !.imported =
                             LoadedLayer(ZeroBuffer, PixelData(file.bytes, env)),
                          !.stroke = [@ EXCEPT !.pending = FALSE]], "load")
           ELSE Log(s, "loadFailed")
    ELSE s

GalleryControls(s, kd, file, env) ==
  IF s.showGallery /\ s.galleryImageCount > 0
    THEN GalleryLoad(GalleryDUp(GalleryDDown(GalleryDLeft(GalleryDRight(s, kd),
                                                          kd), kd), kd),
                     kd, file, env)
    ELSE s

\* X clears the canvas (lines 1129-1133). The clear is an edit unit that began
\* at the mask it snapshots; a stroke in progress continues as part of it.
KeyX(s, kd) ==
  IF "X" \in kd
    THEN LET pushed == Log(pushUndo(s), "snapshot")
         IN Log([pushed EXCEPT
                   !.scratchMask = ClearMask,
                   !.depthOffset = InitDepth,
                   !.stroke = [@ EXCEPT !.unitStart = s.scratchMask,
                                        !.strokeStart = s.scratchMask,
                                        !.pending = TRUE]], "clear")
    ELSE s

\* KeyB that, besides regenerating the layers, resets the mask.
KeyB_alsoResetsMask(s, kd) ==
  IF "B" \in kd
    THEN Log([s EXCEPT !.currentMode = (@ + 1) % 4,
                       !.scratchMask = ClearMask], "mode")
    ELSE s

\* B cycles the drawing mode and regenerates both layers (lines 1136-1141).
KeyB(s, kd) ==
  IF "B" \in kd
    THEN Log(Regenerate([s EXCEPT !.currentMode = (@ + 1) % 4]), "mode")
    ELSE s

\* A cycles the brush shape (lines 1144-1146).
KeyA(s, kd) ==
  IF "A" \in kd
    THEN Log([s EXCEPT !.currentBrushShape = (@ + 1) % 3], "shape")
    ELSE s

\* Y exports the composite buffer (lines 1149-1151); saveOk is whether the
\* file opens for writing.
KeyY(s, kd, saveOk, env) ==
  IF "Y" \in kd
    THEN Log(IF saveOk
               THEN [s EXCEPT !.sdFile =
                       saveScreenshot(Resolve(s.compositeBuffer, env))]
               ELSE s, "export")
    ELSE s

\* D-pad right / left: next / previous colour (lines 1154-1165).
KeyDRight(s, kd) ==
  IF "DRIGHT" \in kd
    THEN Log(Regenerate([s EXCEPT !.currentColorIndex = (@ + 1) % numColors]),
             "colour")
    ELSE s

KeyDLeft(s, kd) ==
  IF "DLEFT" \in kd
    THEN Log(Regenerate([s EXCEPT !.currentColorIndex =
                                    (@ - 1 + numColors) % numColors]),
             "colour")
    ELSE s

\* D-pad up / down: brush size, clamped to 1..50 (lines 1168-1175).
KeyDUp(s, kd) ==
  IF "DUP" \in kd
    THEN Log([s EXCEPT !.brushSize =
                IF @ + 1 > MaxBrushSize THEN MaxBrushSize ELSE @ + 1], "size")
    ELSE s

KeyDDown(s, kd) ==
  IF "DDOWN" \in kd
    THEN Log([s EXCEPT !.brushSize =
                IF @ - 1 < MinBrushSize THEN MinBrushSize ELSE @ - 1], "size")
    ELSE s

\* CirclePad without the upper clamp of the depth.
CirclePad_noUpperClamp(s, dy) ==
  IF Abs(dy) > StickDeadzone
    THEN LET d == s.depthOffset - dy
             lo == IF d < MinDepth THEN MinDepth ELSE d
         IN Log([s EXCEPT !.depthOffset = lo], "depth")
    ELSE s

\* The circle pad adjusts the depth outside the dead zone (lines 1178-1189).
CirclePad(s, dy) ==
  IF Abs(dy) > StickDeadzone
    THEN LET d == s.depthOffset - dy
             lo == IF d < MinDepth THEN MinDepth ELSE d
             hi == IF lo > MaxDepth THEN MaxDepth ELSE lo
         IN Log([s EXCEPT !.depthOffset = hi], "depth")
    ELSE s

\* L: undo, R: redo (lines 1192-1195).
KeyL(s, kd) ==
  IF "L" \in kd
    THEN Log([undo(s) EXCEPT !.stroke = [@ EXCEPT !.pending = FALSE]], "undo")
    ELSE s

KeyR(s, kd) ==
  IF "R" \in kd
    THEN Log([redo(s) EXCEPT !.stroke = [@ EXCEPT !.pending = FALSE]], "redo")
    ELSE s

\* Touch input (lines 1198-1225); t is the position hidTouchRead returns.
TouchSnapshot(s, t) ==
  IF ~s.wasTouching
    THEN Log([pushUndo(s) EXCEPT
                !.prevTouchX = t.px, !.prevTouchY = t.py,
                !.stroke = [@ EXCEPT !.snaps = @ + 1, !.fresh = TRUE]],
             "snapshot")
    ELSE s

TouchDraw(s, t, first, startMask, snapFirst) ==
  IF s.prevTouchX >= 0 /\ s.prevTouchY >= 0
    THEN Log([s EXCEPT
                !.scratchMask =
                  drawLine(s.scratchMask, s.currentBrushShape,
                           s.prevTouchX, s.prevTouchY, t.px, t.py, s.brushSize),
                !.stroke = [@ EXCEPT
                   !.strokeStart = IF first THEN startMask ELSE @,
                   !.snapFirst = IF first THEN snapFirst ELSE @,
                   !.drew = TRUE,
                   !.pending = FALSE]],
             "brush")
    ELSE s

TouchInput(s, kh, t) ==
  IF s.allowDrawing /\ KEY_TOUCH \in kh
    THEN Only({[s2 EXCEPT !.prevTouchX = t.px, !.prevTouchY = t.py,
                          !.wasTouching = TRUE,
                          !.stroke = [@ EXCEPT !.fresh = TRUE]] :
               s2 \in {TouchDraw(s1, t, ~s.stroke.drew, s.scratchMask,
                                 ~s.wasTouching) :
                       s1 \in {TouchSnapshot(s, t)}}})
    ELSE
      [s EXCEPT !.prevTouchX = IF s.wasTouching THEN -1 ELSE @,
                !.prevTouchY = IF s.wasTouching THEN -1 ELSE @,
                !.wasTouching = FALSE]

\* The canvas controls, run only while neither screen is shown
\* (lines 1127-1226), in the order of the code.
CanvasKeys(s, kd, dy, saveOk, env) ==
  IF ~s.showInstructions /\ ~s.showGallery
    THEN KeyR(KeyL(CirclePad(KeyDDown(KeyDUp(KeyDLeft(KeyDRight(KeyY(KeyA(KeyB(
           KeyX(s, kd), kd), kd), kd, saveOk, env), kd), kd), kd), kd), dy),
           kd), kd)
    ELSE s

CanvasTouch(s, kh, t) ==
  IF ~s.showInstructions /\ ~s.showGallery THEN TouchInput(s, kh, t) ELSE s

\* The canvas rendering (lines 1254-1296): while neither screen is shown the
\* layers are composited into compositeBuffer and the composite is copied to
\* the two eyes of the top screen.
Render(s) ==
  IF ~s.showInstructions /\ ~s.showGallery
    THEN Only({[s EXCEPT !.compositeBuffer = composite,
                         !.fbTopLeft = LeftEyeFrame(composite),
                         !.fbTopRight = RightEyeFrame(composite, s.scratchMask,
                                                      s.depthOffset)] :
               composite \in {compositeImage(s.rotatedImage, s.baseImage,
                                             s.scratchMask)}})
    ELSE s

\* The environment of a frame that opens no file (env is not read).
DefaultEnv == CHOOSE e \in Envs : e.mallocOk

\* What the card can hold under the selected gallery name: nothing that
\* opens, or a saved drawing.
GalleryFiles == {NoFile, saveScreenshot(SampleImage)}

\* The screen handling that precedes the controls (lines 972-1012).
ScreenKeys(s, kd, kh, scanCount) ==
  AutoEnableDrawing(
    DismissInstructions(KeySelect(KeyStart(s, kd), kd, scanCount), kd), kh)

\* One loop iteration (lines 967-1257). A scan is what hidScanInput samples:
\* kh the keys held
\* (KEY_TOUCH among them while the stylus is down), dy the circle pad's pos.dy.
\* kHeld is what the previous scan saw held, so kd is hidKeysDown.
FrameOn(scans) ==
  \E scan \in scans :
    LET kh == scan.kh
        kd == kh \ kHeld
        dy == scan.dy
    IN \E t \in (IF KEY_TOUCH \in kh
                   THEN {[px |-> c[1], py |-> c[2]] : c \in TouchPoints}
                   ELSE {NoTouch}),
          scanCount \in (IF "SELECT" \in kd THEN 0 .. MaxGallery
                                            ELSE {galleryImageCount}),
          file \in (IF "A" \in kd THEN GalleryFiles ELSE {NoFile}),
          saveOk \in (IF "Y" \in kd THEN BOOLEAN ELSE {TRUE}) :
       \E env \in (IF file.exists \/ "Y" \in kd THEN Envs ELSE {DefaultEnv}) :
         \E s0 \in {BeginFrame(Cur, kh)} :
         \E s1 \in {ScreenKeys(s0, kd, kh, scanCount)} :
         \E s2 \in {GalleryControls(s1, kd, file, env)} :
         \E s3 \in {CanvasKeys(s2, kd, dy, saveOk, env)} :
         \E s4 \in {CanvasTouch(s3, kh, t)} :
         \E s5 \in {Render(s4)} :
           /\ SetAll(s5)
           /\ kHeld' = kh
           /\ steps' = steps + 1
           /\ UNCHANGED last

\* Spec: every control of the program, one control active per scan: nothing,
\* the circle pad, the stylus, or one button.
IdleScans == {[kh |-> {}, dy |-> 0]}
StickScans == {[kh |-> {}, dy |-> d] : d \in StickDy \ {0}}
StylusScans == {[kh |-> {KEY_TOUCH}, dy |-> 0]}
ButtonScans == {[kh |-> {k}, dy |-> 0] : k \in Buttons}

FrameIdle ==
  /\ steps < MaxFrames
  /\ FrameOn(IdleScans)

FrameStick ==
  /\ steps < MaxFrames
  /\ FrameOn(StickScans)

FrameStylus ==
  /\ steps < MaxFrames
  /\ FrameOn(StylusScans)

FrameButton ==
  /\ steps < MaxFrames
  /\ FrameOn(ButtonScans)

Next == FrameIdle \/ FrameStick \/ FrameStylus \/ FrameButton

Spec == Init /\ [][Next]_vars

\* SpecStroke: the same loop over more iterations, a button and the stylus
\* possibly together, with the buttons that bear on strokes and history: the
\* two screen toggles, clear, undo, redo and the A of the gallery. The circle
\* pad rests.
StrokeButtons == {"START", "SELECT", "A", "X", "L", "R"}
StrokeButtonScans == {[kh |-> {b}, dy |-> 0] : b \in StrokeButtons}
StrokeBothScans == {[kh |-> {b, KEY_TOUCH}, dy |-> 0] : b \in StrokeButtons}

StrokeIdle ==
  /\ steps < MaxStrokeFrames
  /\ FrameOn(IdleScans)

StrokeStylus ==
  /\ steps < MaxStrokeFrames
  /\ FrameOn(StylusScans)

StrokeButton ==
  /\ steps < MaxStrokeFrames
  /\ FrameOn(StrokeButtonScans)

StrokeButtonAndStylus ==
  /\ steps < MaxStrokeFrames
  /\ FrameOn(StrokeBothScans)

NextStroke == StrokeIdle \/ StrokeStylus \/ StrokeButton \/ StrokeButtonAndStylus

SpecStroke == Init /\ [][NextStroke]_vars


\* --------------------------------------------- SpecMap: the index mapping
\* MapPixel applies the mapping of line 621 to one more screen pixel; last
\* keeps the pixels mapped so far and the indices they gave.
LastMapped == IF last.op = "init" THEN {} ELSE last.mapped
LastHit == IF last.op = "init" THEN {} ELSE last.hit

MapPixel ==
  /\ \E q \in Screen \ LastMapped :
       LET maskIdx == maskIdxOf(q[1], q[2])
       IN last' = [op |-> "map", q |-> q, maskIdx |-> maskIdx,
                   mapped |-> LastMapped \cup {q},
                   hit |-> LastHit \cup {maskIdx}]
  /\ steps' = steps + 1
  /\ UNCHANGED <<histVars, styleVars, uiVars, inputVars, obs, stroke,
                 layerVars>>

InitMap ==
  /\ Init
  /\ galleryImageCount = 0

NextMap == MapPixel

SpecMap == InitMap /\ [][NextMap]_vars

\* ------------------------------------- SpecCodec: saveScreenshot, loadDrawing
\* The calls around an export and an import, in the order a session makes
\* them: an optional import of a file of the card, an optional brush edit
\* (pushUndo, then scratchAt), the rendering of the composite, the export of
\* the composite, an import. CardFiles is what the card can hold under a
\* gallery name: nothing, a drawing saved earlier, that drawing with another
\* magic / width / height, an empty file; sdFile is the file just exported.
SavedDrawing == saveScreenshot(SampleImage)
WrongMagicFile == [SavedDrawing EXCEPT !.bytes[1] = 80]
WrongWidthFile == [SavedDrawing EXCEPT !.bytes[19] = SCREEN_WIDTH + 1]
WrongHeightFile == [SavedDrawing EXCEPT !.bytes[23] = SCREEN_HEIGHT + 1]
EmptyFile == [exists |-> TRUE, bytes |-> <<>>]
CardFiles == {NoFile, SavedDrawing, WrongMagicFile, WrongWidthFile,
              WrongHeightFile, EmptyFile}

CodecImport ==
  /\ steps \in {0, 3, 4}
  /\ \E file \in CardFiles \cup {sdFile}, env \in Envs :
       \E s \in {loadDrawing(Cur, file, env)} :
         /\ SetHist(s)
         /\ baseImage' = s.baseImage
         /\ rotatedImage' = s.rotatedImage
         /\ imported' = IF LoadOk(file, env) THEN s.baseImage ELSE imported
         /\ last' = [op |-> "loadDrawing", file |-> file,
                     ok |-> LoadOk(file, env), alloc |-> env.mallocOk,
                     changed |-> s.baseImage # baseImage]
  /\ steps' = IF steps = 0 THEN 1 ELSE 5
  /\ UNCHANGED <<styleVars, uiVars, inputVars, obs, stroke, compositeBuffer,
                 sdFile, fbTopLeft, fbTopRight>>

CodecEdit ==
  /\ steps \in {0, 1}
  /\ \E c \in TouchPoints :
       SetHist([pushUndo(Hist) EXCEPT !.scratchMask =
                  scratchAt(scratchMask, currentBrushShape, c[1], c[2], 1)])
  /\ steps' = 2
  /\ last' = [op |-> "scratchAt"]
  /\ UNCHANGED <<styleVars, uiVars, inputVars, obs, stroke, layerVars>>

CodecRender ==
  /\ steps \in {0, 1, 2}
  /\ compositeBuffer' = compositeImage(rotatedImage, baseImage, scratchMask)
  /\ steps' = 3
  /\ last' = [op |-> "compositeImage"]
  /\ UNCHANGED <<histVars, styleVars, uiVars, inputVars, obs, stroke,
                 baseImage, rotatedImage, sdFile, imported, fbTopLeft,
                 fbTopRight>>

\* saveScreenshot(compositeBuffer); saveOk is whether fopen succeeds
\* (lines 878-879).
CodecExport ==
  /\ steps = 3
  /\ \E saveOk \in BOOLEAN :
       /\ sdFile' = IF saveOk THEN saveScreenshot(compositeBuffer) ELSE sdFile
       /\ last' = [op |-> "saveScreenshot", ok |-> saveOk]
  /\ steps' = 4
  /\ UNCHANGED <<histVars, styleVars, uiVars, inputVars, obs, stroke,
                 baseImage, rotatedImage, compositeBuffer, imported,
                 fbTopLeft, fbTopRight>>

NextCodec == CodecImport \/ CodecEdit \/ CodecRender \/ CodecExport

SpecCodec == Init /\ [][NextCodec]_vars

\* SpecClamp: the main loop started late in a session, on the canvas, with the
\* brush size, the depth and the history at their limits: the brush at its
\* smallest or largest size, the depth one stick step from either clamp, and
\* the history as MAX_HISTORY clears (X) followed by 0, 1 or MAX_HISTORY undos
\* (L) leave it. The scans are the controls that move these values: the size
\* keys, the stick, clear, undo, redo, the stylus, and the gallery keys of an
\* import.
ClampSizes == {MinBrushSize, MaxBrushSize}
ClampDepths == {MinDepth + 100, MaxDepth - 100}
ClampUndos == {0, 1, MAX_HISTORY}

InitClamp ==
  /\ scratchMask = ClearMask
  /\ undoStack = [i \in HistSlots |-> ClearMask]
  /\ \E undone \in ClampUndos :
       /\ redoStack = [i \in HistSlots |-> IF i < undone THEN ClearMask
                                           ELSE ZeroMask]
       /\ undoTop = MAX_HISTORY - undone
       /\ redoTop = undone
  /\ currentColorIndex = 0
  /\ currentMode = MODE_CHECKERBOARD_WHITE
  /\ currentBrushShape = BRUSH_CIRCLE
  /\ allowDrawing = TRUE
  /\ showInstructions = FALSE
  /\ showGallery = FALSE
  /\ depthOffset \in ClampDepths
  /\ prevTouchX = -1
  /\ prevTouchY = -1
  /\ galleryImageCount = 0
  /\ selectedGalleryIndex = 0
  /\ brushSize \in ClampSizes
  /\ wasTouching = FALSE
  /\ kHeld = {}
  /\ steps = 0
  /\ obs = <<>>
  /\ stroke = NoStroke
  /\ baseImage = generateCheckerboard(ZeroBuffer, CellSize,
                                      MODE_CHECKERBOARD_WHITE, 0)
  /\ rotatedImage = generateRotatedCheckerboard(ZeroBuffer, CellSize,
                                                MODE_CHECKERBOARD_WHITE, 0)
  /\ compositeBuffer = compositeImage(rotatedImage, baseImage, scratchMask)
  /\ fbTopLeft = LeftEyeFrame(compositeBuffer)
  /\ fbTopRight = RightEyeFrame(compositeBuffer, scratchMask, depthOffset)
  /\ sdFile = NoFile
  /\ imported = NoImage
  /\ last = [op |-> "init"]

ClampButtons == {"X", "L", "R", "DUP", "DDOWN", "SELECT", "A"}
ClampButtonScans == {[kh |-> {b}, dy |-> 0] : b \in ClampButtons}

ClampStick ==
  /\ steps < MaxClampFrames
  /\ FrameOn(StickScans)

ClampStylus ==
  /\ steps < MaxClampFrames
  /\ FrameOn(StylusScans)

ClampButton ==
  /\ steps < MaxClampFrames
  /\ FrameOn(ClampButtonScans)

NextClamp == ClampStick \/ ClampStylus \/ ClampButton

SpecClamp == InitClamp /\ [][NextClamp]_vars

\* ------------------------------------------------------------------ claims
InDomain(px, py) ==
  px >= 0 /\ px < SCREEN_WIDTH /\ py >= 0 /\ py < SCREEN_HEIGHT

\* The cells a hard brush of the given shape, centre and radius covers.
Covered(shape, cx, cy, r, px, py) ==
  IF shape = BRUSH_CIRCLE
    THEN (px - cx) * (px - cx) + (py - cy) * (py - cy) <= r * r
    ELSE Abs(px - cx) <= r /\ Abs(py - cy) <= r

\* C9: one circle-brush application zeroes exactly the in-domain cells with
\* dx*dx + dy*dy <= r*r around the centre, one square-brush application exactly
\* the in-domain cells of the bounding box, and every other cell keeps its
\* previous value.
C9_HardBrushExactCover ==
  [][(last'.op \in {"prepare", "scratchAt"}
        /\ last'.shape \in {BRUSH_CIRCLE, BRUSH_SQUARE})
      => \A px \in 0 .. SCREEN_WIDTH - 1, py \in 0 .. SCREEN_HEIGHT - 1 :
           scratchMask'[maskIdxOf(px, py)] =
             IF Covered(last'.shape, last'.x, last'.y, last'.r, px, py)
               THEN 0 ELSE scratchMask[maskIdxOf(px, py)]]_vars

\* C9 witness: a circle application on the top row (where the negative-y clamp
\* acts) that erased a cell and left a partly erased cell as it was.
C9_Witness ==
  /\ last.op = "scratchAt"
  /\ last.shape = BRUSH_CIRCLE
  /\ last.y = 0
  /\ \E i \in MaskIdx : scratchMask[i] = 0
  /\ \E i \in MaskIdx : scratchMask[i] > 0 /\ scratchMask[i] < 255

\* C10: a soft-brush application never increases any mask cell.
C10_SoftNeverIncreases ==
  [][(last'.op \in {"prepare", "scratchAt"} /\ last'.shape = BRUSH_SOFT)
      => \A i \in MaskIdx : scratchMask'[i] <= scratchMask[i]]_vars

\* C10 witness: a soft application over a mask that already held erased cells,
\* ending with a cell strictly between 0 and 255 and a cell still erased.
C10_Witness ==
  /\ last.op = "scratchAt"
  /\ last.shape = BRUSH_SOFT
  /\ \E i \in MaskIdx : scratchMask[i] = 0
  /\ \E i \in MaskIdx : scratchMask[i] > 0 /\ scratchMask[i] < 255

\* C1: pushUndo, then edits, then undo leaves the mask equal to the mask
\* pushUndo saved (m0); a redo directly after that undo leaves it equal to the
\* edited mask the undo replaced (m1).
C1_UndoRedoRoundTrip ==
  last.op \in {"undo", "redo"} =>
    /\ last.phase = "undone" => scratchMask = last.m0
    /\ last.phase = "redone" => scratchMask = last.m1

\* C1 witness: the redo of such a sequence has run, the edits changed the mask,
\* and an older snapshot lies under the restored one.
C1_Witness ==
  /\ last.op = "redo"
  /\ last.phase = "redone"
  /\ last.m0 # last.m1
  /\ undoTop >= 2

\* C6: undo with an empty undo stack and redo with an empty redo stack change
\* neither the mask nor the stacks nor the top indices.
C6_EmptyUndoRedoNoOp ==
  [][((last'.op = "undo" /\ undoTop = 0) \/ (last'.op = "redo" /\ redoTop = 0))
      => UNCHANGED histVars]_vars

\* C6 witness: undo was called on an empty undo stack while the redo stack and
\* the mask held something.
C6_Witness ==
  /\ last.op = "undo"
  /\ last.emptyBefore
  /\ redoTop > 0
  /\ scratchMask # ClearMask

\* C5: after k pushUndo calls in a row the undo stack holds the
\* min(k, MAX_HISTORY) most recent masks in push order; the undos that follow
\* return them newest first, and once MAX_HISTORY snapshots are undone a
\* further undo changes nothing, so the older masks cannot be reached.
C5_KeepsMostRecent ==
  last.op \in {"pushUndo", "scratchAt", "undo"} =>
    LET k == Len(last.pushed)
        n == Min(k, MAX_HISTORY)
        j == last.undone
    IN /\ j = 0 =>
            /\ undoTop = n
            /\ \A i \in 1 .. n : undoStack[i - 1] = last.pushed[k - n + i]
       /\ (j >= 1 /\ j <= n) =>
            /\ undoTop = n - j
            /\ redoTop = j
            /\ scratchMask = last.pushed[k - j + 1]
       /\ j > n =>
            /\ undoTop = 0
            /\ redoTop = n
            /\ scratchMask = last.pushed[k - n + 1]

\* C5 witness: more than MAX_HISTORY masks were pushed, the evicted oldest one
\* differs from the oldest one kept, and MAX_HISTORY + 1 undos have run.
C5_Witness ==
  /\ last.op = "undo"
  /\ Len(last.pushed) > MAX_HISTORY
  /\ last.undone = MAX_HISTORY + 1
  /\ last.pushed[1] # last.pushed[Len(last.pushed) - MAX_HISTORY + 1]
  /\ scratchMask = last.pushed[Len(last.pushed) - MAX_HISTORY + 1]

\* The events of the last frame, by name.
Events == {obs[i].ev : i \in DOMAIN obs}
EditEvents == {"snapshot", "clear", "brush", "undo", "redo", "load"}
StyleEvents == {"mode", "colour", "shape", "size", "depth"}

\* C2: right after every user edit of the main loop (a brush application of a
\* stroke, a clear with X) the redo stack is empty.
C2_RedoEmptyAfterEdit ==
  \A i \in DOMAIN obs : obs[i].ev \in {"brush", "clear"} => obs[i].redoTop = 0

\* C3: a touch contact that has applied the brush took exactly one snapshot,
\* in the frame of its first brush application and before it.
C3_OneSnapshotPerStroke ==
  stroke.drew => stroke.snaps = 1 /\ stroke.snapFirst

\* C4: once a stroke or a clear is complete (and nothing was undone, redone,
\* drawn or loaded since), a single undo gives the mask as it was immediately
\* before that stroke or clear began.
C4_SingleUndoRestoresUnit ==
  stroke.pending => undo(Hist).scratchMask = stroke.unitStart

\* C7: drawLine is only ever called from a stroke cursor that was set during
\* the touch contact in progress: no line runs from the last point of an
\* earlier contact to a point of a later one.
C7_NoLineAcrossGestures ==
  \A i \in DOMAIN obs : obs[i].ev = "brush" => obs[i].fresh

\* C8: a frame that clears nothing, applies no brush, takes no snapshot, runs
\* no undo or redo and imports nothing (so a frame that only changes mode,
\* colour, brush shape, brush size or depth) leaves the mask, both history
\* stacks and both top indices unchanged.
C8_StyleLeavesMaskAndHistory ==
  [][(Events' \cap EditEvents = {}) => UNCHANGED histVars]_vars

\* C8 witness: a frame changed a style parameter and nothing else while the
\* mask held erased cells and the undo stack a snapshot.
C8_Witness ==
  /\ Events \cap StyleEvents # {}
  /\ Events \cap EditEvents = {}
  /\ scratchMask # ClearMask
  /\ undoTop > 0

\* round(255 * (d / radius)^2) for d^2 = d2, to nearest, in exact arithmetic.
RoundedSoftAlpha(d2, radius) ==
  (2 * 255 * d2 + radius * radius) \div (2 * radius * radius)

\* C11: a soft-brush application leaves every cell it writes at the minimum of
\* the cell's previous alpha and round(255 * (d / radius)^2), the target
\* rounded to nearest, d the distance of the writing offset.
C11_SoftRoundsToNearest ==
  [][(last'.op \in {"prepare", "scratchAt"} /\ last'.shape = BRUSH_SOFT)
      => \A i \in MaskIdx :
           LET hits == Hits(BRUSH_SOFT, last'.x, last'.y, last'.r, i)
               targets == {RoundedSoftAlpha(o[1] * o[1] + o[2] * o[2], last'.r) :
                             o \in hits}
           IN hits # {}
                => scratchMask'[i] =
                     Min(scratchMask[i],
                         CHOOSE a \in targets : \A b \in targets : a <= b)]_vars

\* scratchAt applied at the centres path[k], path[k+1], ... in turn.
RECURSIVE ApplyAlong(_, _, _, _)
ApplyAlong(mask, shape, path, k) ==
  IF k > Len(path) THEN mask
  ELSE ApplyAlong(scratchAt(mask, shape, path[k][1], path[k][2], 1),
                  shape, path, k + 1)

\* C12: drawLine terminates; it applies the brush at the centres of its path,
\* first at p0 and last at p1; consecutive centres differ by exactly 1 along
\* the dominant axis and by at most 1 along the other; there are
\* max(|x1-x0|, |y1-y0|) + 1 applications; for p0 = p1 the result is that of a
\* single scratchAt at that point.
C12_LineVisitsBothEndsNoGap ==
  last.op = "drawLine" =>
    LET path == last.path
        n == Len(path)
        adx == Abs(last.x1 - last.x0)
        ady == Abs(last.y1 - last.y0)
    IN /\ \A k \in 1 .. n : path[k] # NoPoint
       /\ path[1] = <<last.x0, last.y0>>
       /\ path[n] = <<last.x1, last.y1>>
       /\ n = (IF adx >= ady THEN adx ELSE ady) + 1
       /\ \A k \in 1 .. n - 1 :
            LET sx == Abs(path[k + 1][1] - path[k][1])
                sy == Abs(path[k + 1][2] - path[k][2])
            IN /\ sx <= 1 /\ sy <= 1
               /\ adx >= ady => sx = 1
               /\ ady >= adx => sy = 1
       /\ scratchMask = ApplyAlong(last.m0, last.shape, path, 1)
       /\ (last.x0 = last.x1 /\ last.y0 = last.y1)
            => scratchMask = scratchAt(last.m0, last.shape, last.x0, last.y0, 1)

\* C12 witness: a line of a slope that is neither axis-parallel nor diagonal,
\* drawn right to left and upwards, that erased cells of the mask.
C12_Witness ==
  /\ last.op = "drawLine"
  /\ last.x1 < last.x0
  /\ last.y1 < last.y0
  /\ Abs(last.x1 - last.x0) # Abs(last.y1 - last.y0)
  /\ scratchMask # last.m0

\* C12 witness of the degenerate line, p0 = p1, inside the mask.
C12_WitnessPoint ==
  /\ last.op = "drawLine"
  /\ last.x0 = last.x1 /\ last.y0 = last.y1
  /\ Len(last.path) = 1
  /\ scratchMask # last.m0

\* C13: after compositeImage every byte of dest is
\* (bottom * (255 - alpha) + top * alpha) / 255, truncated, and lies in
\* 0 .. 255; a mask of 255 everywhere gives the top (overlay) layer byte for
\* byte, a mask of 0 everywhere the bottom (hidden) layer.
C13_CompositeCrossFade ==
  last.op = "compositeImage" =>
    /\ \A j \in PixelBytes :
         LET alpha == scratchMask[j \div 3]
             blend == (rotatedImage[j] * (255 - alpha) + baseImage[j] * alpha)
                        \div 255
         IN compositeBuffer[j] = blend /\ blend \in 0 .. 255
    /\ (\A i \in MaskIdx : scratchMask[i] = 255) => compositeBuffer = baseImage
    /\ (\A i \in MaskIdx : scratchMask[i] = 0) => compositeBuffer = rotatedImage

\* C13 witness: a composite under a fully opaque mask of two layers that
\* differ in every byte.
C13_Witness ==
  /\ last.op = "compositeImage"
  /\ \A i \in MaskIdx : scratchMask[i] = 255
  /\ \A j \in PixelBytes : baseImage[j] # rotatedImage[j]
  /\ compositeBuffer = baseImage

\* The <<b, g, r>> stored in a buffer for screen pixel (x, y) under the mapping
\* of the brush, the compositor and the codec.
PixelAt(buffer, x, y) ==
  LET i == maskIdxOf(x, y) * 3
  IN <<buffer[i], buffer[i + 1], buffer[i + 2]>>

\* Both layers were last written by the generators alone.
LayersGenerated == imported = NoImage

\* C14: while the layers are as the generators left them in a checkerboard
\* style, the overlay pixel at the brush's index of every screen pixel (x, y)
\* is the palette colour iff (x/cellSize + y/cellSize) is odd and the style's
\* background otherwise, and the hidden-layer pixel at that index follows the
\* same rule for the rotated pair (y, SCREEN_WIDTH - 1 - x).
C14_GeneratorsUseBrushMapping ==
  (/\ LayersGenerated
   /\ currentMode \in {MODE_CHECKERBOARD_BLACK, MODE_CHECKERBOARD_WHITE}) =>
    \A q \in Screen :
      /\ PixelAt(baseImage, q[1], q[2])
           = CheckerColour(currentMode, currentColorIndex,
                           q[1] \div CellSize, q[2] \div CellSize)
      /\ PixelAt(rotatedImage, q[1], q[2])
           = CheckerColour(currentMode, currentColorIndex,
                           q[2] \div CellSize,
                           (SCREEN_WIDTH - 1 - q[1]) \div CellSize)

\* Contents a layer can hold before a generator runs on it.
PriorContents == {ZeroBuffer, SampleImage, [j \in PixelBytes |-> 255]}

\* C15: while the layers are as the generators left them, each layer is what
\* its generator makes of any earlier content under the current style: every
\* pixel was written, none keeps what the buffer held before.
C15_RegenerationWholeBuffer ==
  LayersGenerated =>
    \A b \in PriorContents :
      /\ baseImage
           = generateCheckerboard(b, CellSize, currentMode, currentColorIndex)
      /\ rotatedImage
           = generateRotatedCheckerboard(b, CellSize, currentMode,
                                         currentColorIndex)

\* C17: from a successful import until the next style change both layers
\* hold the imported image.
C17_ImportFillsBothLayers ==
  imported # NoImage => baseImage = imported /\ rotatedImage = imported

\* C16: the mapping index = x * SCREEN_HEIGHT + (SCREEN_HEIGHT - 1 - y) is a
\* bijection from the screen onto the mask indices: every mapped pixel gets an
\* index in range from which x = index / SCREEN_HEIGHT and
\* y = SCREEN_HEIGHT - 1 - index mod SCREEN_HEIGHT recover it, distinct pixels
\* get distinct indices, and once every pixel is mapped every index is hit.
C16_MappingIsBijection ==
  last.op = "map" =>
    /\ last.maskIdx \in MaskIdx
    /\ last.q = <<last.maskIdx \div SCREEN_HEIGHT,
                  SCREEN_HEIGHT - 1 - (last.maskIdx % SCREEN_HEIGHT)>>
    /\ Cardinality(last.hit) = Cardinality(last.mapped)
    /\ last.mapped = Screen => last.hit = MaskIdx

\* C16 witness: every screen pixel has been mapped and every index was hit.
C16_Witness ==
  /\ last.op = "map"
  /\ last.mapped = Screen
  /\ last.hit = MaskIdx
  /\ Cardinality(last.hit) = SCREEN_WIDTH * SCREEN_HEIGHT

\* C18: importing the file an export has just written (the temporary pixel
\* buffer allocated) succeeds and leaves the overlay layer byte-identical to
\* the exported frame.
C18_ExportImportRoundTrip ==
  (/\ last.op = "loadDrawing"
   /\ sdFile.exists
   /\ last.file = sdFile
   /\ last.alloc) =>
    /\ sdFile = saveScreenshot(compositeBuffer)
    /\ last.ok
    /\ baseImage = compositeBuffer

\* C18 witness: the import of the exported file replaced an overlay layer
\* that differed from the frame, a composite under a scratched mask.
C18_Witness ==
  /\ last.op = "loadDrawing"
  /\ sdFile.exists
  /\ last.file = sdFile
  /\ last.ok
  /\ last.changed
  /\ undoTop = 0
  /\ baseImage = compositeBuffer
  /\ \E j \in PixelBytes, k \in PixelBytes : baseImage[j] # baseImage[k]

\* What loadDrawing rejects according to C19: a file that cannot be opened,
\* one whose first two bytes are not 'BM', one whose width / height fields are
\* not the screen's.
NotBM(bytes) == Len(bytes) < 2 \/ bytes[1] # 66 \/ bytes[2] # 77
NotScreenSized(bytes) ==
  \/ Len(bytes) < 26
  \/ ReadLE32(bytes, 18) # SCREEN_WIDTH
  \/ ReadLE32(bytes, 22) # SCREEN_HEIGHT
Rejected(file) ==
  ~file.exists \/ NotBM(file.bytes) \/ NotScreenSized(file.bytes)

\* C19: a loadDrawing of a rejected file returns failure and a saveScreenshot
\* whose file cannot be opened returns failure, and either leaves both layers,
\* the mask, both stacks and both indices as they were.
C19_FailedFileOpsChangeNothing ==
  [][/\ (last'.op = "loadDrawing" /\ Rejected(last'.file)) =>
          /\ ~last'.ok
          /\ UNCHANGED <<baseImage, rotatedImage, histVars>>
     /\ (last'.op = "saveScreenshot" /\ ~last'.ok) =>
          UNCHANGED <<baseImage, rotatedImage, histVars, sdFile>>]_vars

\* The little-endian value of the two bytes at offset `at` (from 0).
ReadLE16(bytes, at) == bytes[at + 1] + 256 * bytes[at + 2]

\* C20: the exported file is 54 + SCREEN_WIDTH * SCREEN_HEIGHT * 3 bytes: 'BM',
\* its own size, reserved 0, data offset 54, info-header size 40, width,
\* height, planes 1, 24 bits per pixel, 24 zero bytes, then the rows from
\* y = SCREEN_HEIGHT - 1 down to 0, each left to right, each pixel the 3 bytes
\* of the frame at index x * SCREEN_HEIGHT + (SCREEN_HEIGHT - 1 - y).
C20_ExportedFileLayout ==
  (last.op = "saveScreenshot" /\ last.ok) =>
    LET bytes == sdFile.bytes
    IN /\ Len(bytes) = 54 + SCREEN_WIDTH * SCREEN_HEIGHT * 3
       /\ \A k \in 1 .. Len(bytes) : bytes[k] \in 0 .. 255
       /\ bytes[1] = 66 /\ bytes[2] = 77
       /\ ReadLE32(bytes, 2) = 54 + SCREEN_WIDTH * SCREEN_HEIGHT * 3
       /\ ReadLE32(bytes, 6) = 0
       /\ ReadLE32(bytes, 10) = 54
       /\ ReadLE32(bytes, 14) = 40
       /\ ReadLE32(bytes, 18) = SCREEN_WIDTH
       /\ ReadLE32(bytes, 22) = SCREEN_HEIGHT
       /\ ReadLE16(bytes, 26) = 1
       /\ ReadLE16(bytes, 28) = 24
       /\ \A k \in 31 .. 54 : bytes[k] = 0
       /\ \A row \in 0 .. SCREEN_HEIGHT - 1, x \in 0 .. SCREEN_WIDTH - 1,
             c \in 0 .. 2 :
            LET y == SCREEN_HEIGHT - 1 - row
            IN bytes[54 + (row * SCREEN_WIDTH + x) * 3 + c + 1]
                 = compositeBuffer[
                     (x * SCREEN_HEIGHT + (SCREEN_HEIGHT - 1 - y)) * 3 + c]

\* C20 witness: an export of a frame whose bytes are not all alike.
C20_Witness ==
  /\ last.op = "saveScreenshot"
  /\ last.ok
  /\ sdFile.exists
  /\ Len(sdFile.bytes) = 54 + SCREEN_WIDTH * SCREEN_HEIGHT * 3
  /\ \E j \in PixelBytes, k \in PixelBytes :
       compositeBuffer[j] # compositeBuffer[k]

\* trunc of a depth kept in thousandths: the integer nearest to zero-ward.
ClaimTrunc(depth) ==
  CHOOSE n \in -500 .. 500 :
    /\ Abs(n) * 1000 <= Abs(depth)
    /\ Abs(depth) < (Abs(n) + 1) * 1000
    /\ (n > 0 => depth > 0)
    /\ (n < 0 => depth < 0)

\* The right-eye column C21 gives screen pixel q.
ClaimedRightColumn(q) ==
  IF scratchMask[maskIdxOf(q[1], q[2])] > 128
    THEN q[1] + 40 + ClaimTrunc(depthOffset)
    ELSE q[1] + 40

\* The pixels C21 places in the right-eye column and row of q: the one the
\* loops (x outer, y inner) copy last is the one left there.
LastPlaced(q) ==
  LastWriter({o \in Screen : /\ o[2] = q[2]
                             /\ ClaimedRightColumn(o) = ClaimedRightColumn(q)})

\* C21: after the top-screen rendering the left-eye frame holds every screen
\* pixel (x, y) at column x + 40 and nothing else; the right-eye frame holds
\* it at column x + 40 + trunc(depthOffset) when the mask alpha at (x, y)
\* exceeds 128 and at x + 40 otherwise; a pixel whose column is outside the
\* top screen is in no cell of the frame; and a depth within the clamps gives
\* every pixel a column on the top screen.
C21_StereoPlacement ==
  last.op = "renderTop" =>
    /\ DOMAIN fbTopLeft = {TopPixelIdx(q[1] + 40, q[2]) : q \in Screen}
    /\ \A q \in Screen :
         fbTopLeft[TopPixelIdx(q[1] + 40, q[2])]
           = PixelAt(compositeBuffer, q[1], q[2])
    /\ DOMAIN fbTopRight
         = {TopPixelIdx(ClaimedRightColumn(q), q[2]) :
              q \in {o \in Screen : ClaimedRightColumn(o) \in 0 .. TopWidth - 1}}
    /\ DOMAIN fbTopRight \subseteq 0 .. TopWidth * SCREEN_HEIGHT - 1
    /\ \A q \in Screen :
         ClaimedRightColumn(q) \in 0 .. TopWidth - 1 =>
           fbTopRight[TopPixelIdx(ClaimedRightColumn(q), q[2])]
             = PixelAt(compositeBuffer, LastPlaced(q)[1], LastPlaced(q)[2])
    /\ (depthOffset >= MinDepth /\ depthOffset <= MaxDepth) =>
         \A q \in Screen : ClaimedRightColumn(q) \in 0 .. TopWidth - 1

\* C21 witness: a rendering with a depth inside the clamps that truncates to
\* a nonzero shift, under a mask with alphas 128 and 129: the 129 pixels are
\* shifted, the 128 ones are not.
C21_Witness ==
  /\ last.op = "renderTop"
  /\ depthOffset >= MinDepth /\ depthOffset <= MaxDepth
  /\ depthOffset < 0 /\ depthOffset % 1000 # 0
  /\ ClaimTrunc(depthOffset) # 0
  /\ \E i \in MaskIdx, k \in MaskIdx : scratchMask[i] = 128 /\ scratchMask[k] = 129
  /\ \E q \in Screen :
       /\ scratchMask[maskIdxOf(q[1], q[2])] = 129
       /\ fbTopRight[TopPixelIdx(q[1] + 40 + ClaimTrunc(depthOffset), q[2])]
            = PixelAt(compositeBuffer, q[1], q[2])
  /\ fbTopRight # fbTopLeft

\* A rendering whose depth pushes some pixel, not all, off the top screen.
C21_WitnessDropped ==
  /\ last.op = "renderTop"
  /\ \E q \in Screen : ClaimedRightColumn(q) \notin 0 .. TopWidth - 1
  /\ \E q \in Screen : /\ scratchMask[maskIdxOf(q[1], q[2])] > 128
                       /\ ClaimedRightColumn(q) \in 0 .. TopWidth - 1
  /\ Cardinality(DOMAIN fbTopRight) < SCREEN_WIDTH * SCREEN_HEIGHT

\* C22: a scratchAt whose centre is off the screen changes no mask cell; one
\* whose centre is on the screen changes only cells whose screen coordinates
\* are within brushSize of the centre in x and in y; the mask keeps its index
\* set.
C22_BrushStaysInBoxAndDomain ==
  [][last'.op = "scratchAt" =>
       /\ DOMAIN scratchMask' = MaskIdx
       /\ ~InDomain(last'.x, last'.y) => scratchMask' = scratchMask
       /\ InDomain(last'.x, last'.y) =>
            \A i \in MaskIdx :
              scratchMask'[i] # scratchMask[i] =>
                LET px == i \div SCREEN_HEIGHT
                    py == SCREEN_HEIGHT - 1 - (i % SCREEN_HEIGHT)
                IN /\ Abs(px - last'.x) <= last'.r
                   /\ Abs(py - last'.y) <= last'.r]_vars

\* C22 witness: a square application in the corner (0, 0), where offsets
\* reach above and left of the screen, erased the corner cell and left the
\* cells beyond its box clear.
C22_Witness ==
  /\ last.op = "scratchAt"
  /\ last.shape = BRUSH_SQUARE
  /\ last.x = 0 /\ last.y = 0 /\ last.r = 1
  /\ scratchMask[maskIdxOf(0, 0)] = 0
  /\ \A px \in 2 .. SCREEN_WIDTH - 1, py \in 0 .. SCREEN_HEIGHT - 1 :
       scratchMask[maskIdxOf(px, py)] = 255

\* An application centred off the screen, within reach of it, left a mask
\* with erased cells as it was.
C22_WitnessOutside ==
  /\ last.op = "scratchAt"
  /\ last.x = -1 /\ last.y = 0 /\ last.r = MaxRadius
  /\ scratchMask # ClearMask

\* C23: in every state of the main loop the brush size is in 1 .. 50, the
\* depth in -10 .. 15, both history indices in 0 .. 20 with a sum of at most
\* 20, so the slot the next pushUndo (after its shift), undo or redo writes is
\* in 0 .. 19.
C23_ClampedValues ==
  /\ brushSize >= 1 /\ brushSize <= 50
  /\ depthOffset >= -10000 /\ depthOffset <= 15000
  /\ undoTop >= 0 /\ undoTop <= 20
  /\ redoTop >= 0 /\ redoTop <= 20
  /\ undoTop + redoTop <= 20
  /\ (IF undoTop >= 20 THEN 19 ELSE undoTop) \in HistSlots
  /\ undoTop > 0 => redoTop \in HistSlots
  /\ redoTop > 0 => undoTop \in HistSlots

\* C23 witness: a frame has cleared the canvas (pushUndo, depth reset) and
\* left the undo stack full, the brush at one of its limits.
C23_Witness ==
  /\ "clear" \in Events
  /\ undoTop = MAX_HISTORY
  /\ redoTop = 0
  /\ brushSize \in {MinBrushSize, MaxBrushSize}
  /\ depthOffset = InitDepth

\* A frame of the stick has left the depth at a clamp, a frame of a size key
\* the brush at a limit, an import both indices at 0.
C23_WitnessDepth ==
  /\ "depth" \in Events
  /\ depthOffset \in {MinDepth, MaxDepth}

C23_WitnessSize ==
  /\ "size" \in Events
  /\ brushSize \in {MinBrushSize, MaxBrushSize}

C23_WitnessImport ==
  /\ "load" \in Events
  /\ undoTop = 0 /\ redoTop = 0

\* C24: a frame in which Y writes a file writes the composite of the two
\* layers and the mask as they stand (with one control per scan nothing else
\* acts in that frame, so they stand at its end as they stood at the export).
C24_ExportIsCurrentComposite ==
  [][("export" \in Events' /\ sdFile' # sdFile) =>
       sdFile' = saveScreenshot(
                   compositeImage(rotatedImage', baseImage', scratchMask'))]_vars

\* C25: a frame that closes the instruction screen or the gallery while the
\* stylus is on the touch screen applies no brush.
C25_ClosingTouchNeverDraws ==
  [][((showInstructions \/ showGallery)
        /\ ~showInstructions' /\ ~showGallery'
        /\ KEY_TOUCH \in kHeld') =>
       "brush" \notin Events']_vars

\* The canvas state that the controls of the canvas block act on.
CanvasControlled ==
  <<scratchMask, undoStack, redoStack, undoTop, redoTop, currentMode,
    currentColorIndex, currentBrushShape, brushSize>>

\* The style that a gallery load itself leaves alone.
StyleControlled ==
  <<currentMode, currentColorIndex, currentBrushShape, brushSize>>

\* C26: the key press that dismisses the instruction screen changes none of
\* the mask, the history stacks, the mode, the colour, the brush shape and the
\* brush size in that frame and exports nothing; the A press that loads a
\* gallery image changes no style beyond what the load does and exports nothing.
C26_ClosingKeyIsNoCanvasControl ==
  [][/\ "dismiss" \in Events' =>
          /\ UNCHANGED CanvasControlled
          /\ "export" \notin Events'
     /\ "load" \in Events' =>
          /\ UNCHANGED StyleControlled
          /\ "export" \notin Events']_vars

=============================================================================
